---- MODULE Spec2Model ----
(***************************************************************************)
(* Release Manager backend (src/src/backend.js): the HTTP handlers over    *)
(* the extension-property storage, modelled as a state machine.            *)
(*                                                                         *)
(* A JavaScript value that is `undefined` (a missing property) is the      *)
(* token Absent; every payload is a record over all the fields the         *)
(* handlers read, Absent where the JSON body has no such property.         *)
(***************************************************************************)
EXTENDS Integers, Sequences, FiniteSets, TLC

VARIABLES
    releases,                 \* ctx.project.extensionProperties.releases
    appSettings,              \* ctx.project.extensionProperties.appSettings
    issueStatusData,          \* ctx.project.extensionProperties.issueStatusData
    settingsIssueStatusData,  \* ctx.settings.issueStatusData
    expandedVersion,          \* ctx.currentUser.extensionProperties.expandedVersion
    ctxSettings,              \* what ctx.settings is on this installation
    now,                      \* the value Date.now() returns
    request,                  \* the request the last handler was called with
    response,                 \* ctx.response after the last handler returned
    escaped,                  \* an exception left the last handler
    \* useSharedIssueStatuses: the module's shared state
    globalIssueStatusMap,
    globalIssueTestStatusMap,
    globalStatusesLoaded,
    isInitialFetchInProgress,
    lastFetchTime,
    hasAttemptedFetch,
    listeners,                \* the listeners of the mounted hook instances
    intervals,                \* the hook instances whose polling timer runs
    statusFetch,              \* the api.getIssueStatuses() call in flight
    statusWrites,             \* the persistence calls in flight
    \* API.fetchJson: the module's cache of the settings, and its users
    cachedSettings,
    cachedSettingsPromise,
    settingsFetches,          \* the requests of the settings in flight
    settingsListeners,        \* handlers of 'settings-updated', in order
    productOptions,           \* useProductOptions: its state
    tagSettings,              \* ProductTag: its state
    \* useReleaseVersions: the state of the hook instance
    rvMounted,
    clientReleaseVersions,    \* the hook's state releaseVersions
    rvError,
    rvFetches,                \* the api.getReleaseVersions() calls in flight
    \* useVersionProgress: the props it was rendered with, and its state
    progressInput,
    mainProgress,
    mainAvailable,
    processedResults,         \* the result of each planned issue
    progressFetches,          \* the runs of fetchIssueData that await their fetch
    \* resolveFieldNameCaseInsensitive: its arguments and what it returned
    resolverInput,
    resolvedName,
    \* useExpandedState and the table of the release versions
    expandedReleaseVersions,  \* the hook's state: a set of release ids
    expandedInfoSections,     \* the table's state: a set of release ids
    expandedLoad,             \* loadExpanded: the GET expanded-version call
    expandedWrites,           \* the api.setExpandedVersion calls, in order
    lastClick,                \* the last click on the expander of a row
    clientStep                \* what the last step of the client did

statusCacheVars ==
    <<globalIssueStatusMap, globalIssueTestStatusMap, globalStatusesLoaded,
      isInitialFetchInProgress, lastFetchTime, hasAttemptedFetch, listeners,
      intervals, statusFetch, statusWrites>>

settingsClientVars ==
    <<cachedSettings, cachedSettingsPromise, settingsFetches,
      settingsListeners, productOptions, tagSettings>>

releaseListVars ==
    <<rvMounted, clientReleaseVersions, rvError, rvFetches>>

progressVars ==
    <<progressInput, mainProgress, mainAvailable, processedResults,
      progressFetches>>

resolverVars == <<resolverInput, resolvedName>>

\* the state of the widget that the hooks above do not touch
expansionVars ==
    <<expandedReleaseVersions, expandedInfoSections, expandedLoad,
      expandedWrites, lastClick>>

widgetVars == <<progressVars, resolverVars, expansionVars>>

clientVars ==
    <<statusCacheVars, settingsClientVars, releaseListVars, widgetVars,
      clientStep>>

backendVars ==
    <<releases, appSettings, issueStatusData, settingsIssueStatusData,
      expandedVersion, ctxSettings>>

vars == <<releases, appSettings, issueStatusData, settingsIssueStatusData,
          expandedVersion, ctxSettings, now, request, response, escaped,
          clientVars>>

----------------------------------------------------------------------------
(* Bounds of the model. *)

MaxReleases == 2      \* longest stored release list a create may extend
MaxTime == 2          \* last clock value
MaxWrites == 2        \* most persistence calls of the client in flight
MaxSettingsFetches == 2   \* most requests of the settings in flight
MaxListFetches == 2   \* most requests of the release list in flight

----------------------------------------------------------------------------
(* HTTP_STATUS *)

OK == 200
CREATED == 201
NO_CONTENT == 204
BAD_REQUEST == 400
NOT_FOUND == 404

----------------------------------------------------------------------------
(* JavaScript values *)

Absent == "<undefined>"

\* `!v` is false: v is neither undefined nor the empty string
Truthy(v) == v # Absent /\ v # ""

\* An extension property holds nothing, a JSON text, or a text that is no JSON.
Undefined == [kind |-> "undefined", value |-> <<>>]
BadJson == [kind |-> "garbage", value |-> <<>>]

\* JSON.stringify of a value built from JSON values: a text that parses back
JSONstringify(v) == [kind |-> "json", value |-> v]

\* what a throw statement carries: an Error object or a plain string
ErrorObject(m) == [type |-> "Error", message |-> m]
ThrownString(s) == [type |-> "string", message |-> s]
NoError == [type |-> "none", message |-> ""]

\* JSON.parse: the value, or a SyntaxError
JSONparse(text) ==
    IF text.kind = "json"
    THEN [thrown |-> FALSE, value |-> text.value, err |-> NoError]
    ELSE [thrown |-> TRUE, value |-> Absent,
          err |-> ErrorObject("Unexpected token in JSON")]

\* Number.prototype.toString of Date.now().toString(): the decimal numeral
NumberToString(n) == ToString(n)

\* new Date(s): the time value in days since 2099-01-01, or an Invalid Date
NewDate(s) ==
    CASE s = "2099-01-01" -> [valid |-> TRUE, time |-> 0]
      [] s = "2099-01-02" -> [valid |-> TRUE, time |-> 1]
      [] s = "2099-02-01" -> [valid |-> TRUE, time |-> 31]
      [] OTHER -> [valid |-> FALSE, time |-> 0]

\* a > b on two Date objects: false as soon as one is an Invalid Date (NaN)
DateGreater(a, b) == a.valid /\ b.valid /\ a.time > b.time

\* Array.isArray on the linkedIssues values of the model
IsArray(v) == v \in {"[]", "[A-1]", "[State]", "[State,Progress]", "[Core]"}

\* the length of an array value of the model
ArrayLength(v) ==
    CASE v = "[]" -> 0
      [] v = "[A-1]" -> 1
      [] v = "[State]" -> 1
      [] v = "[State,Progress]" -> 2
      [] v = "[Core]" -> 1

----------------------------------------------------------------------------
(* Responses *)

NoResponse == [code |-> OK, kind |-> "none", error |-> Absent,
               errors |-> <<>>, value |-> Absent]

\* ctx.response as a handler finds it
FreshResponse == NoResponse

\* ctx.response.json(v)
Json(resp, v) == [resp EXCEPT !.kind = "json", !.value = v]

\* error.message || error
MessageOrError(e) ==
    IF e.type = "Error" /\ e.message = "" THEN e
    ELSE ThrownString(e.message)

\* sendErrorResponse with a string or with an object
sendErrorResponse(resp, statusCode, errorMessage) ==
    IF errorMessage.type = "string"
    THEN [resp EXCEPT !.code = statusCode, !.kind = "error",
                      !.error = errorMessage.message]
    ELSE IF errorMessage.type = "errors"
    THEN [resp EXCEPT !.code = statusCode, !.kind = "errors",
                      !.errors = errorMessage.errors]
    ELSE [resp EXCEPT !.code = statusCode, !.kind = "json",
                      !.value = errorMessage]

Errors(list) == [type |-> "errors", errors |-> list]

\* a handler without the catch block: what the body throws leaves the handler
CatchRethrows(r) ==
    [store |-> r.store, response |-> r.response, escaped |-> r.thrown]

\* try { ... } catch (error) { logError(...); sendErrorResponse(...) } around a
\* handler body: r is how the body ended
Catch(r) ==
    IF r.thrown
    THEN [store |-> r.store, escaped |-> FALSE,
          response |-> sendErrorResponse(r.response, BAD_REQUEST,
                                         MessageOrError(r.err))]
    ELSE [store |-> r.store, escaped |-> FALSE, response |-> r.response]

\* the body ran to its end (or returned)
Done(store, resp) ==
    [thrown |-> FALSE, err |-> NoError, store |-> store, response |-> resp]

\* the body threw e
Throw(store, e) ==
    [thrown |-> TRUE, err |-> e, store |-> store, response |-> FreshResponse]

\* reading a property of null
TypeError == ErrorObject("Cannot read properties of null")

----------------------------------------------------------------------------
(* Requests and the host *)

\* ctx.request.json() of the body "null"
NullBody == [kind |-> "null"]
\* a body ctx.request.json() cannot parse
Unparseable == [kind |-> "unparseable"]
\* a request without a body
NoBody == [kind |-> "none"]

NoId == Absent

\* the issues the requests and the client name
IssueIds == {"A-1", "A-2"}

Request(op, id, body) == [op |-> op, id |-> id, body |-> body]

NoRequest == Request("none", NoId, NoBody)

\* What the host does during one handler call: whether assigning an extension
\* property throws, and what the host throws whenever it throws.
HostErrors == {ErrorObject("host failure"), ThrownString("host failure")}
\* ctx.settings is an object, an object whose properties cannot be assigned,
\* or missing.
SettingsKinds == {"present", "readonly", "missing"}
AllHosts == [writeFails : BOOLEAN, err : HostErrors, settings : SettingsKinds]
\* the hosts of one installation: the write fails or not, either error thrown
ErrorHosts == {h \in AllHosts : h.settings = "present"}
\* the same, throwing an Error object only
Hosts == {h \in ErrorHosts : h.err = ErrorObject("host failure")}
HostOk == [writeFails |-> FALSE, err |-> ErrorObject("host failure"),
           settings |-> "present"]

ReleaseBody(id, version, status, releaseDate, featureFreezeDate, linkedIssues, description) ==
    [kind |-> "object", id |-> id, version |-> version, status |-> status,
     releaseDate |-> releaseDate, featureFreezeDate |-> featureFreezeDate,
     linkedIssues |-> linkedIssues, description |-> description]

\* the fields of a release version other than id
ReleaseFields == {"version", "status", "releaseDate", "featureFreezeDate",
                  "linkedIssues", "description"}

----------------------------------------------------------------------------
(* Validation *)

validStatuses == {"Planning", "In progress", "Released", "Overdue", "Canceled"}

validateVersionField(releaseVersion, errors) ==
    IF ~Truthy(releaseVersion.version)
    THEN Append(errors, "Version is required")
    ELSE errors

\* the status the object has after validateStatusField
DefaultedStatus(releaseVersion) ==
    IF ~Truthy(releaseVersion.status)
    THEN [releaseVersion EXCEPT !.status = "Planning"]
    ELSE releaseVersion

validateStatusField(releaseVersion, errors) ==
    IF ~Truthy(releaseVersion.status) THEN errors
    ELSE IF releaseVersion.status \notin validStatuses
    THEN Append(errors, "Status must be one of: Planning, In progress, Released, Overdue, Canceled")
    ELSE errors

DateOrderError == "Feature Freeze Date must be before Release Date"

FreezeAfterReleaseOrEqual(freezeDate, releaseDate) ==
    freezeDate.valid /\ releaseDate.valid /\ freezeDate.time >= releaseDate.time

\* freezeDate > releaseDate
FreezeAfterRelease(freezeDate, releaseDate) ==
    DateGreater(freezeDate, releaseDate)

validateDateFields(releaseVersion, errors) ==
    LET e1 == IF ~Truthy(releaseVersion.releaseDate)
              THEN Append(errors, "Release Date is required")
              ELSE errors
    IN  IF /\ Truthy(releaseVersion.featureFreezeDate)
           /\ Truthy(releaseVersion.releaseDate)
           /\ FreezeAfterRelease(NewDate(releaseVersion.featureFreezeDate),
                                 NewDate(releaseVersion.releaseDate))
        THEN Append(e1, DateOrderError)
        ELSE e1

validateLinkedIssues(releaseVersion, errors) ==
    IF Truthy(releaseVersion.linkedIssues) /\ ~IsArray(releaseVersion.linkedIssues)
    THEN Append(errors, "Linked Issues must be an array")
    ELSE errors

\* the errors, and the object as the validation leaves it
validateReleaseVersion(releaseVersion) ==
    [errors |-> validateLinkedIssues(releaseVersion,
                  validateDateFields(releaseVersion,
                    validateStatusField(releaseVersion,
                      validateVersionField(releaseVersion, <<>>)))),
     releaseVersion |-> DefaultedStatus(releaseVersion)]

----------------------------------------------------------------------------
(* Storage of the release list *)

\* getReleaseVersions: the stored list, [] when nothing or no JSON is stored
getReleaseVersions(store) ==
    IF store.kind = "undefined" THEN <<>>
    ELSE LET parsed == JSONparse(store)
         IN  IF parsed.thrown THEN <<>> ELSE parsed.value

\* saveReleaseVersions: the store afterwards and the boolean it returns
saveReleaseVersions(store, releaseVersions, host) ==
    IF host.writeFails
    THEN [ok |-> FALSE, store |-> store]
    ELSE [ok |-> TRUE, store |-> JSONstringify(releaseVersions)]

\* Array.prototype.findIndex(rv => rv.id === id), 0 when there is none
FindIndex(list, id) ==
    IF \E i \in 1..Len(list) : list[i].id = id
    THEN CHOOSE i \in 1..Len(list) :
            /\ list[i].id = id
            /\ \A j \in 1..(i - 1) : list[j].id # id
    ELSE 0

\* Array.prototype.filter(rv => rv.id !== id)
RECURSIVE FilterOut(_, _)
FilterOut(list, id) ==
    IF list = <<>> THEN <<>>
    ELSE IF Head(list).id # id
         THEN <<Head(list)>> \o FilterOut(Tail(list), id)
         ELSE FilterOut(Tail(list), id)

----------------------------------------------------------------------------
(* Release handlers: the try block of each, given the stored text, the     *)
(* request, the host and the clock.  req.body is what ctx.request.json()   *)
(* returns, Unparseable when it throws.                                    *)

\* ctx.request.json() throws, or the first property read of the body does
BodyThrows(req) == req.body = Unparseable \/ req.body = NullBody

BodyError(req, host) == IF req.body = Unparseable THEN host.err ELSE TypeError

\* GET releases
GetReleasesTry(store, req) ==
    Done(store, Json(FreshResponse, getReleaseVersions(store)))

\* GET release?id=
GetReleaseTry(store, req) ==
    LET releaseVersions == getReleaseVersions(store)
        index == FindIndex(releaseVersions, req.id)
    IN  IF index # 0
        THEN Done(store, Json(FreshResponse, releaseVersions[index]))
        ELSE Done(store, sendErrorResponse(FreshResponse, NOT_FOUND,
                            ThrownString("Release version not found")))

\* the id a create assigns
FreshId(time) == NumberToString(time)

\* a create that appends before it looks at the validation errors
PostReleasesTrySavesInvalid(store, req, host, time) ==
    IF BodyThrows(req) THEN Throw(store, BodyError(req, host))
    ELSE
    LET validated == validateReleaseVersion(req.body)
        releaseVersions == getReleaseVersions(store)
        releaseVersion == [validated.releaseVersion EXCEPT !.id = FreshId(time)]
        saved == saveReleaseVersions(store,
                    Append(releaseVersions, releaseVersion), host)
    IN  IF Len(validated.errors) > 0
        THEN Done(saved.store, sendErrorResponse(FreshResponse, BAD_REQUEST,
                            Errors(validated.errors)))
        ELSE IF saved.ok
        THEN Done(saved.store,
                  Json([FreshResponse EXCEPT !.code = CREATED], releaseVersion))
        ELSE Done(saved.store, sendErrorResponse(FreshResponse, BAD_REQUEST,
                            ThrownString("Failed to save release version")))

\* POST releases
PostReleasesTry(store, req, host, time) ==
    IF BodyThrows(req) THEN Throw(store, BodyError(req, host))
    ELSE
    LET validated == validateReleaseVersion(req.body)
        releaseVersions == getReleaseVersions(store)
        releaseVersion == [validated.releaseVersion EXCEPT !.id = FreshId(time)]
        saved == saveReleaseVersions(store,
                    Append(releaseVersions, releaseVersion), host)
    IN  IF Len(validated.errors) > 0
        THEN Done(store, sendErrorResponse(FreshResponse, BAD_REQUEST,
                            Errors(validated.errors)))
        ELSE IF saved.ok
        THEN Done(saved.store,
                  Json([FreshResponse EXCEPT !.code = CREATED], releaseVersion))
        ELSE Done(saved.store, sendErrorResponse(FreshResponse, BAD_REQUEST,
                            ThrownString("Failed to save release version")))

\* an update that stores the payload with the id the payload carries
ReplaceAtPayloadId(releaseVersions, index, updatedReleaseVersion, id) ==
    [releaseVersions EXCEPT ![index] = updatedReleaseVersion]

\* an update that keeps the old value of every field the payload omits
ReplaceAtMerging(releaseVersions, index, updatedReleaseVersion, id) ==
    [releaseVersions EXCEPT ![index] =
        [f \in DOMAIN updatedReleaseVersion |->
            IF f = "id" THEN id
            ELSE IF updatedReleaseVersion[f] = Absent THEN releaseVersions[index][f]
            ELSE updatedReleaseVersion[f]]]

\* releaseVersions[index] = updatedReleaseVersion, with the id preserved
ReplaceAt(releaseVersions, index, updatedReleaseVersion, id) ==
    [releaseVersions EXCEPT ![index] = [updatedReleaseVersion EXCEPT !.id = id]]

\* PUT release?id=
PutReleaseTry(store, req, host) ==
    IF BodyThrows(req) THEN Throw(store, BodyError(req, host))
    ELSE
    LET validated == validateReleaseVersion(req.body)
        releaseVersions == getReleaseVersions(store)
        index == FindIndex(releaseVersions, req.id)
        updated == ReplaceAt(releaseVersions, index,
                             validated.releaseVersion, req.id)
        saved == saveReleaseVersions(store, updated, host)
    IN  IF Len(validated.errors) > 0
        THEN Done(store, sendErrorResponse(FreshResponse, BAD_REQUEST,
                            Errors(validated.errors)))
        ELSE IF index = 0
        THEN Done(store, sendErrorResponse(FreshResponse, NOT_FOUND,
                            ThrownString("Release version not found")))
        ELSE IF saved.ok
        THEN Done(saved.store, Json(FreshResponse, updated[index]))
        ELSE Done(saved.store, sendErrorResponse(FreshResponse, BAD_REQUEST,
                            ThrownString("Failed to save release version")))

\* a delete that answers no-content whether or not the id was stored
DeleteReleaseTryIdempotent(store, req, host) ==
    LET releaseVersions == getReleaseVersions(store)
        updatedReleaseVersions == FilterOut(releaseVersions, req.id)
        saved == saveReleaseVersions(store, updatedReleaseVersions, host)
    IN  IF ~Truthy(req.id)
        THEN Done(store, sendErrorResponse(FreshResponse, BAD_REQUEST,
                            ThrownString("Release version ID is required")))
        ELSE IF saved.ok
        THEN Done(saved.store, [FreshResponse EXCEPT !.code = NO_CONTENT])
        ELSE Done(saved.store, sendErrorResponse(FreshResponse, BAD_REQUEST,
                            ThrownString("Failed to delete release version")))

\* DELETE release?id=
DeleteReleaseTry(store, req, host) ==
    LET releaseVersions == getReleaseVersions(store)
        updatedReleaseVersions == FilterOut(releaseVersions, req.id)
        saved == saveReleaseVersions(store, updatedReleaseVersions, host)
    IN  IF ~Truthy(req.id)
        THEN Done(store, sendErrorResponse(FreshResponse, BAD_REQUEST,
                            ThrownString("Release version ID is required")))
        ELSE IF Len(updatedReleaseVersions) < Len(releaseVersions)
        THEN IF saved.ok
             THEN Done(saved.store, [FreshResponse EXCEPT !.code = NO_CONTENT])
             ELSE Done(saved.store, sendErrorResponse(FreshResponse, BAD_REQUEST,
                            ThrownString("Failed to delete release version")))
        ELSE Done(store, sendErrorResponse(FreshResponse, NOT_FOUND,
                            ThrownString("Release version not found")))

\* the handlers, try and catch
GetReleasesHandler(store, req) == Catch(GetReleasesTry(store, req))
GetReleaseHandler(store, req) == Catch(GetReleaseTry(store, req))
PostReleasesHandler(store, req, host, time) ==
    Catch(PostReleasesTry(store, req, host, time))
PutReleaseHandler(store, req, host) == Catch(PutReleaseTry(store, req, host))
DeleteReleaseHandler(store, req, host) ==
    Catch(DeleteReleaseTry(store, req, host))

----------------------------------------------------------------------------
(* Inputs *)

\* the ids a request may name: none, or the numeral of a clock value
RequestIds == {NoId} \cup {NumberToString(t) : t \in 1..MaxTime}

\* the bodies of the create/update/delete flows: a full payload that carries
\* an id of its own, a minimal payload, and each of them made invalid
FullBody == ReleaseBody("999", "1.0", "Released", "2099-01-02", "2099-01-01",
                        "[A-1]", "notes")
MinimalBody == ReleaseBody(Absent, "2.0", Absent, "2099-02-01", Absent,
                           Absent, Absent)
CrudBodies == {FullBody, MinimalBody,
               [FullBody EXCEPT !.version = Absent],
               [MinimalBody EXCEPT !.status = "Done"],
               NullBody, Unparseable}

\* every combination of field values the validation rules tell apart
DateValues == {Absent, "", "2099-01-01", "2099-01-02", "2099-02-01", "soon"}
ValidationBodies ==
    {ReleaseBody(id, version, status, releaseDate, featureFreezeDate,
                 linkedIssues, description) :
        id \in {Absent, "999"},
        version \in {Absent, "", "1.0"},
        status \in {Absent, "Released", "Done"},
        releaseDate \in DateValues, featureFreezeDate \in DateValues,
        linkedIssues \in {Absent, "[]", "A-1"},
        description \in {Absent, "notes"}}

\* the stored record a create of body b at clock value t leaves
Stored(b, t) == [DefaultedStatus(b) EXCEPT !.id = NumberToString(t)]

\* stored texts a single request is tried against
SampleStores ==
    {Undefined, BadJson,
     JSONstringify(<<Stored(FullBody, 1)>>),
     JSONstringify(<<Stored(MinimalBody, 1), Stored(FullBody, 2)>>)}

----------------------------------------------------------------------------
(* The client before any hook is mounted *)

\* the hook instances (components) that may be mounted
Components == {"c1", "c2"}

\* a status map without keys: {}
NoStatuses == [i \in IssueIds |-> Absent]

\* no api.getIssueStatuses() call is in flight
NoStatusFetch ==
    [stage |-> "none", ok |-> FALSE, issueStatuses |-> NoStatuses,
     testStatuses |-> NoStatuses, quiet |-> FALSE]

\* the client has done nothing yet
NoClientStep ==
    [op |-> "none", notified |-> {}, dispatched |-> "none", calls |-> <<>>,
     kept |-> <<>>]

\* useSharedIssueStatuses: the module-level state as the module is loaded
StatusCacheInit ==
    /\ globalIssueStatusMap = NoStatuses
    /\ globalIssueTestStatusMap = NoStatuses
    /\ globalStatusesLoaded = FALSE
    /\ isInitialFetchInProgress = FALSE
    /\ lastFetchTime = 0
    /\ hasAttemptedFetch = FALSE
    /\ listeners = {}
    /\ intervals = {}
    /\ statusFetch = NoStatusFetch
    /\ statusWrites = {}

\* cachedSettingsPromise: null, a promise that rejected, or the slot of the
\* request a pending promise waits for
NullPromise == 0
RejectedPromise == 0 - 1
SettingsSlots == 1..MaxSettingsFetches

\* cachedSettings before anything is cached, and a slot without a request
NoSettings == [kind |-> "undefined"]
NoSettingsFetch ==
    [stage |-> "free", ok |-> FALSE, settings |-> NoSettings, waiters |-> {}]

\* helpers.ts: the module-level cache as the module is loaded; the
\* components' first state
SettingsClientInit ==
    /\ cachedSettings = NoSettings
    /\ cachedSettingsPromise = NullPromise
    /\ settingsFetches = [f \in SettingsSlots |-> NoSettingsFetch]
    /\ settingsListeners = <<>>
    /\ productOptions = <<>>
    /\ tagSettings = NoSettings

\* a slot without a request of the release list
NoListFetch == [stage |-> "free", ok |-> FALSE, rows |-> <<>>, silent |-> FALSE]

\* useReleaseVersions before it is mounted
ReleaseListInit ==
    /\ rvMounted = FALSE
    /\ clientReleaseVersions = <<>>
    /\ rvError = FALSE
    /\ rvFetches = [f \in 1..MaxListFetches |-> NoListFetch]

\* the issues of the progress of a release: a planned issue and two that
\* are its subtasks or its related issues
ProgressIds == {"P-1", "P-2", "P-3"}

\* the value null of a field
NullValue == "<null>"

\* the hook is not rendered
NoProgressInput == [item |-> [plannedIssues |-> <<>>]]

\* batchResults[id] when the batch has no result for id
NoBatchResult == [found |-> FALSE, items |-> <<>>]

\* useVersionProgress: the first state mainProgress
NoProgress == [green |-> 0, yellow |-> 0, red |-> 0, grey |-> 0, total |-> 0]

ProgressInit ==
    /\ progressInput = NoProgressInput
    /\ mainProgress = NoProgress
    /\ mainAvailable = FALSE
    /\ processedResults = <<>>
    /\ progressFetches = <<>>

\* resolveFieldNameCaseInsensitive has not been called
NoResolverInput == [issue |-> [exists |-> FALSE], orderedNames |-> <<>>]
NotResolved == [done |-> FALSE, actual |-> Absent]

ResolverInit ==
    /\ resolverInput = NoResolverInput
    /\ resolvedName = NotResolved

\* loadExpanded has not been called
NoExpandedLoad == [stage |-> "none", value |-> Absent]

\* no expander has been clicked
NoClick == [kind |-> "none", id |-> NoId, early |-> FALSE]

\* useExpandedState and the table before they are mounted
ExpansionInit ==
    /\ expandedReleaseVersions = {}
    /\ expandedInfoSections = {}
    /\ expandedLoad = NoExpandedLoad
    /\ expandedWrites = <<>>
    /\ lastClick = NoClick

ClientInit ==
    /\ StatusCacheInit
    /\ SettingsClientInit
    /\ ReleaseListInit
    /\ ProgressInit
    /\ ResolverInit
    /\ ExpansionInit
    /\ clientStep = NoClientStep

----------------------------------------------------------------------------
(* Actions: one per endpoint *)

\* the handler was called with req and ended as out
Handled(req, out) ==
    /\ request' = req
    /\ response' = out.response
    /\ escaped' = out.escaped

\* a request that no client of the model sent
Respond(req, out) ==
    /\ Handled(req, out)
    /\ UNCHANGED clientVars

\* the list a create may still extend
Room == Len(getReleaseVersions(releases)) < MaxReleases

\* the clock advances
Tick ==
    /\ now < MaxTime
    /\ now' = now + 1
    /\ UNCHANGED <<releases, appSettings, issueStatusData,
                   settingsIssueStatusData, expandedVersion, ctxSettings,
                   request, response, escaped, clientVars>>

GetReleases ==
    LET req == Request("GET releases", NoId, NoBody)
    IN  /\ Respond(req, GetReleasesHandler(releases, req))
        /\ UNCHANGED <<releases, appSettings, issueStatusData,
                       settingsIssueStatusData, expandedVersion, ctxSettings, now>>

GetRelease ==
    \E id \in RequestIds :
        LET req == Request("GET release", id, NoBody)
        IN  /\ Respond(req, GetReleaseHandler(releases, req))
            /\ UNCHANGED <<releases, appSettings, issueStatusData,
                           settingsIssueStatusData, expandedVersion, ctxSettings, now>>

PostReleases(bodies, hosts) ==
    \E body \in bodies, host \in hosts :
        LET req == Request("POST releases", NoId, body)
            out == PostReleasesHandler(releases, req, host, now)
        IN  /\ releases' = out.store
            /\ Respond(req, out)
            /\ UNCHANGED <<appSettings, issueStatusData,
                           settingsIssueStatusData, expandedVersion, ctxSettings, now>>

PutRelease(bodies, hosts) ==
    \E id \in RequestIds, body \in bodies, host \in hosts :
        LET req == Request("PUT release", id, body)
            out == PutReleaseHandler(releases, req, host)
        IN  /\ releases' = out.store
            /\ Respond(req, out)
            /\ UNCHANGED <<appSettings, issueStatusData,
                           settingsIssueStatusData, expandedVersion, ctxSettings, now>>

DeleteRelease(hosts) ==
    \E id \in RequestIds, host \in hosts :
        LET req == Request("DELETE release", id, NoBody)
            out == DeleteReleaseHandler(releases, req, host)
        IN  /\ releases' = out.store
            /\ Respond(req, out)
            /\ UNCHANGED <<appSettings, issueStatusData,
                           settingsIssueStatusData, expandedVersion, ctxSettings, now>>

----------------------------------------------------------------------------
(* Spec: the release endpoints, called in any order from empty storage *)

Init ==
    /\ releases = Undefined
    /\ appSettings = Undefined
    /\ issueStatusData = Undefined
    /\ settingsIssueStatusData = Undefined
    /\ expandedVersion = Absent
    /\ ctxSettings = "present"
    /\ now = 1
    /\ request = NoRequest
    /\ response = NoResponse
    /\ escaped = FALSE
    /\ ClientInit

CreateRelease == Room /\ PostReleases(CrudBodies, Hosts)
UpdateRelease == PutRelease(CrudBodies, Hosts)
RemoveRelease == DeleteRelease(Hosts)

Next ==
    \/ Tick
    \/ GetReleases
    \/ GetRelease
    \/ CreateRelease
    \/ UpdateRelease
    \/ RemoveRelease

Spec == Init /\ [][Next]_vars

----------------------------------------------------------------------------
(* SpecRequest: one create or update request, with any body, against a     *)
(* sample of stored lists                                                  *)

InitRequest ==
    /\ releases \in SampleStores
    /\ appSettings = Undefined
    /\ issueStatusData = Undefined
    /\ settingsIssueStatusData = Undefined
    /\ expandedVersion = Absent
    /\ ctxSettings = "present"
    /\ now = MaxTime
    /\ request = NoRequest
    /\ response = NoResponse
    /\ escaped = FALSE
    /\ ClientInit

CreateOnce == request = NoRequest /\ PostReleases(ValidationBodies, Hosts)
UpdateOnce == request = NoRequest /\ PutRelease(ValidationBodies, Hosts)

NextRequest == CreateOnce \/ UpdateOnce

SpecRequest == InitRequest /\ [][NextRequest]_vars

----------------------------------------------------------------------------
(* Issue statuses: GET issue-statuses, PUT issue-status,                   *)
(* PUT issue-test-status.  The stored value is the object                  *)
(* {issueStatuses, testStatuses}, two maps over the issue ids, Absent      *)
(* where a map has no entry.                                               *)

EmptyData == [issueStatuses |-> [i \in IssueIds |-> Absent],
              testStatuses |-> [i \in IssueIds |-> Absent]]

allowedStatuses == {"Unresolved", "Fixed", "Merged", "Discoped"}
allowedTestStatuses == {"Tested", "Not tested", "Test NA"}

StatusBody(issueId, status, testStatus) ==
    [kind |-> "object", issueId |-> issueId, status |-> status,
     testStatus |-> testStatus]

\* body && body.issueId, and the like
BodyField(body, field) == IF body = NullBody THEN Absent ELSE body[field]

\* the two places the status data is kept
StatusStores(project, settings) == [project |-> project, settings |-> settings]

\* the stored text the handlers read: the project's, else the app settings'
StatusDataJson(stores, host) ==
    IF stores.project.kind # "undefined" THEN stores.project
    ELSE IF host.settings # "missing" THEN stores.settings
    ELSE Undefined

\* JSON.parse of the text and the defaults for what is missing
ParseStatusData(dataJson) ==
    IF dataJson.kind = "undefined"
    THEN [thrown |-> FALSE, value |-> EmptyData, err |-> NoError]
    ELSE JSONparse(dataJson)

\* the two assignments of the serialized data; the first that throws ends them
WriteStatusData(stores, data, host) ==
    LET serialized == JSONstringify(data)
        first == [stores EXCEPT !.project = serialized]
    IN  IF host.writeFails
        THEN [thrown |-> TRUE, stores |-> stores]
        ELSE IF host.settings = "missing"
        THEN [thrown |-> FALSE, stores |-> first]
        ELSE IF host.settings = "readonly"
        THEN [thrown |-> TRUE, stores |-> first]
        ELSE [thrown |-> FALSE, stores |-> [first EXCEPT !.settings = serialized]]

StatusResponse(data) ==
    Json(FreshResponse, [ok |-> TRUE, issueStatuses |-> data.issueStatuses,
                         testStatuses |-> data.testStatuses])

\* GET issue-statuses
GetIssueStatusesTry(stores, req, host) ==
    LET parsed == ParseStatusData(StatusDataJson(stores, host))
    IN  IF parsed.thrown THEN Throw(stores, parsed.err)
        ELSE Done(stores, Json(FreshResponse,
                    [issueStatuses |-> parsed.value.issueStatuses,
                     testStatuses |-> parsed.value.testStatuses]))

\* an issue-status update that leaves the test status alone
NewIssueStatusKeepsTest(data, issueId, status) ==
    [data EXCEPT !.issueStatuses[issueId] = status]

\* data.issueStatuses[issueId] = status, and the reset of the test status
NewIssueStatus(data, issueId, status) ==
    IF ~(status = "Fixed" \/ status = "Merged")
    THEN [data EXCEPT !.issueStatuses[issueId] = status,
                      !.testStatuses[issueId] = "Not tested"]
    ELSE [data EXCEPT !.issueStatuses[issueId] = status]

\* PUT issue-status
PutIssueStatusTry(stores, req, host) ==
    IF req.body = Unparseable THEN Throw(stores, host.err)
    ELSE
    LET issueId == BodyField(req.body, "issueId")
        status == BodyField(req.body, "status")
        parsed == ParseStatusData(StatusDataJson(stores, host))
        data == NewIssueStatus(parsed.value, issueId, status)
        written == WriteStatusData(stores, data, host)
    IN  IF ~Truthy(issueId)
        THEN Done(stores, sendErrorResponse(FreshResponse, BAD_REQUEST,
                            ThrownString("issueId is required")))
        ELSE IF status \notin allowedStatuses
        THEN Done(stores, sendErrorResponse(FreshResponse, BAD_REQUEST,
                            ThrownString("Invalid status value")))
        ELSE IF parsed.thrown THEN Throw(stores, parsed.err)
        ELSE IF written.thrown THEN Throw(written.stores, host.err)
        ELSE Done(written.stores, StatusResponse(data))

\* the test status stored for the issue: the given one only when the issue
\* is Fixed or Merged
NewTestStatus(data, issueId, testStatus) ==
    LET cur == data.issueStatuses[issueId]
    IN  IF ~(cur = "Fixed" \/ cur = "Merged")
        THEN [data EXCEPT !.testStatuses[issueId] = "Not tested"]
        ELSE [data EXCEPT !.testStatuses[issueId] = testStatus]

\* PUT issue-test-status
PutIssueTestStatusTry(stores, req, host) ==
    IF req.body = Unparseable THEN Throw(stores, host.err)
    ELSE
    LET issueId == BodyField(req.body, "issueId")
        testStatus == BodyField(req.body, "testStatus")
        parsed == ParseStatusData(StatusDataJson(stores, host))
        data == NewTestStatus(parsed.value, issueId, testStatus)
        written == WriteStatusData(stores, data, host)
    IN  IF ~Truthy(issueId)
        THEN Done(stores, sendErrorResponse(FreshResponse, BAD_REQUEST,
                            ThrownString("issueId is required")))
        ELSE IF testStatus \notin allowedTestStatuses
        THEN Done(stores, sendErrorResponse(FreshResponse, BAD_REQUEST,
                            ThrownString("Invalid testStatus value")))
        ELSE IF parsed.thrown THEN Throw(stores, parsed.err)
        ELSE IF written.thrown THEN Throw(written.stores, host.err)
        ELSE Done(written.stores, StatusResponse(data))

GetIssueStatusesHandler(stores, req, host) ==
    Catch(GetIssueStatusesTry(stores, req, host))
PutIssueStatusHandler(stores, req, host) ==
    Catch(PutIssueStatusTry(stores, req, host))
PutIssueTestStatusHandler(stores, req, host) ==
    Catch(PutIssueTestStatusTry(stores, req, host))

\* the bodies of the two updates
IssueStatusBodies ==
    {StatusBody(i, st, Absent) :
        i \in IssueIds \cup {Absent},
        st \in allowedStatuses \cup {Absent, "Done"}}
    \cup {NullBody, Unparseable}
TestStatusBodies ==
    {StatusBody(i, Absent, t) :
        i \in IssueIds \cup {Absent},
        t \in allowedTestStatuses \cup {Absent, "Passed"}}
    \cup {NullBody, Unparseable}

GetIssueStatuses(hosts) ==
    \E h \in hosts :
        LET host == [h EXCEPT !.settings = ctxSettings]
            req == Request("GET issue-statuses", NoId, NoBody)
            out == GetIssueStatusesHandler(
                      StatusStores(issueStatusData, settingsIssueStatusData),
                      req, host)
        IN  /\ Respond(req, out)
            /\ UNCHANGED <<releases, appSettings, issueStatusData,
                           settingsIssueStatusData, expandedVersion, ctxSettings, now>>

PutIssueStatus(hosts) ==
    \E body \in IssueStatusBodies, h \in hosts :
        LET host == [h EXCEPT !.settings = ctxSettings]
            req == Request("PUT issue-status", NoId, body)
            out == PutIssueStatusHandler(
                      StatusStores(issueStatusData, settingsIssueStatusData),
                      req, host)
        IN  /\ issueStatusData' = out.store.project
            /\ settingsIssueStatusData' = out.store.settings
            /\ Respond(req, out)
            /\ UNCHANGED <<releases, appSettings, expandedVersion, ctxSettings, now>>

PutIssueTestStatus(hosts) ==
    \E body \in TestStatusBodies, h \in hosts :
        LET host == [h EXCEPT !.settings = ctxSettings]
            req == Request("PUT issue-test-status", NoId, body)
            out == PutIssueTestStatusHandler(
                      StatusStores(issueStatusData, settingsIssueStatusData),
                      req, host)
        IN  /\ issueStatusData' = out.store.project
            /\ settingsIssueStatusData' = out.store.settings
            /\ Respond(req, out)
            /\ UNCHANGED <<releases, appSettings, expandedVersion, ctxSettings, now>>

----------------------------------------------------------------------------
(* SpecStatus: the issue-status endpoints, called in any order from empty  *)
(* data, on any host                                                       *)

InitStatus ==
    /\ releases = Undefined
    /\ appSettings = Undefined
    /\ issueStatusData = Undefined
    /\ settingsIssueStatusData = Undefined
    /\ expandedVersion = Absent
    /\ ctxSettings \in SettingsKinds
    /\ now = 1
    /\ request = NoRequest
    /\ response = NoResponse
    /\ escaped = FALSE
    /\ ClientInit

ReadStatuses == GetIssueStatuses(Hosts)
SetIssueStatus == PutIssueStatus(Hosts)
SetTestStatus == PutIssueTestStatus(Hosts)

NextStatus == ReadStatuses \/ SetIssueStatus \/ SetTestStatus

SpecStatus == InitStatus /\ [][NextStatus]_vars

----------------------------------------------------------------------------
(* App settings: GET app-settings, PUT app-settings *)

SettingsBody(customFieldNames, customFieldName, products) ==
    [kind |-> "object", customFieldNames |-> customFieldNames,
     customFieldName |-> customFieldName, products |-> products]

\* the settings GET answers with when nothing is stored
DefaultSettings == SettingsBody("[]", Absent, "[]")

\* String(customFieldName || '').split(/[;,]/).map(trim).filter(nonempty)
SplitNames(txt) ==
    CASE txt = "State" -> "[State]"
      [] txt = "State; Progress" -> "[State,Progress]"
      [] OTHER -> "[]"

\* the migration of the old customFieldName and the array defaults
MigrateSettings(settings) ==
    LET migrated ==
            IF settings.customFieldName # Absent
               /\ (~Truthy(settings.customFieldNames)
                   \/ ~IsArray(settings.customFieldNames))
            THEN [settings EXCEPT
                    !.customFieldNames = SplitNames(settings.customFieldName),
                    !.customFieldName = Absent]
            ELSE settings
        named == IF ~IsArray(migrated.customFieldNames)
                 THEN [migrated EXCEPT !.customFieldNames = "[]"]
                 ELSE migrated
    IN  IF ~IsArray(named.products)
        THEN [named EXCEPT !.products = "[]"]
        ELSE named

\* GET app-settings
GetAppSettingsTry(store, req) ==
    LET parsed == IF store.kind = "undefined"
                  THEN [thrown |-> FALSE, value |-> DefaultSettings,
                        err |-> NoError]
                  ELSE JSONparse(store)
    IN  IF parsed.thrown THEN Throw(store, parsed.err)
        ELSE Done(store, Json(FreshResponse, MigrateSettings(parsed.value)))

\* a settings check that lets an empty array through
RejectsFieldNamesAllowsEmpty(customFieldNames) ==
    ~Truthy(customFieldNames) \/ ~IsArray(customFieldNames)

\* !customFieldNames || !Array.isArray(customFieldNames) || length === 0
RejectsFieldNames(customFieldNames) ==
    \/ ~Truthy(customFieldNames)
    \/ ~IsArray(customFieldNames)
    \/ ArrayLength(customFieldNames) = 0

\* PUT app-settings
PutAppSettingsTry(store, req, host) ==
    IF BodyThrows(req) THEN Throw(store, BodyError(req, host))
    ELSE IF RejectsFieldNames(req.body.customFieldNames)
    THEN Done(store, sendErrorResponse(FreshResponse, BAD_REQUEST,
                ThrownString("At least one custom field name is required")))
    ELSE IF host.writeFails THEN Throw(store, host.err)
    ELSE Done(JSONstringify(req.body), Json(FreshResponse, req.body))

GetAppSettingsHandler(store, req) == Catch(GetAppSettingsTry(store, req))
PutAppSettingsHandler(store, req, host) ==
    Catch(PutAppSettingsTry(store, req, host))

SettingsBodies ==
    {SettingsBody(names, name, products) :
        names \in {Absent, "", "State", "[]", "[State]", "[State,Progress]"},
        name \in {Absent, "State; Progress"},
        products \in {Absent, "[]"}}
    \cup {NullBody, Unparseable}

\* settings an earlier version of the app stored
LegacySettings == SettingsBody(Absent, "State; Progress", Absent)

GetAppSettings ==
    LET req == Request("GET app-settings", NoId, NoBody)
    IN  /\ Respond(req, GetAppSettingsHandler(appSettings, req))
        /\ UNCHANGED <<releases, appSettings, issueStatusData,
                       settingsIssueStatusData, expandedVersion, ctxSettings, now>>

PutAppSettings(hosts) ==
    \E body \in SettingsBodies, host \in hosts :
        LET req == Request("PUT app-settings", NoId, body)
            out == PutAppSettingsHandler(appSettings, req, host)
        IN  /\ appSettings' = out.store
            /\ Respond(req, out)
            /\ UNCHANGED <<releases, issueStatusData, settingsIssueStatusData,
                           expandedVersion, ctxSettings, now>>

----------------------------------------------------------------------------
(* SpecSettings: the settings endpoints, called in any order, from nothing *)
(* stored, from a text that is no JSON or from settings of the old format  *)

InitSettings ==
    /\ releases = Undefined
    /\ appSettings \in {Undefined, BadJson, JSONstringify(LegacySettings)}
    /\ issueStatusData = Undefined
    /\ settingsIssueStatusData = Undefined
    /\ expandedVersion = Absent
    /\ ctxSettings = "present"
    /\ now = 1
    /\ request = NoRequest
    /\ response = NoResponse
    /\ escaped = FALSE
    /\ ClientInit

ReadSettings == GetAppSettings
SaveSettings == PutAppSettings(ErrorHosts)

NextSettings == ReadSettings \/ SaveSettings

SpecSettings == InitSettings /\ [][NextSettings]_vars

----------------------------------------------------------------------------
(* GET config, GET permissions, GET and PUT expanded-version *)

\* GET config: the three flags of ctx.settings, false where one is not set
GetConfigTry(settingsKind, flag) ==
    IF settingsKind = "missing" THEN Throw(Undefined, TypeError)
    ELSE Done(Undefined, Json(FreshResponse,
                [manualIssueManagement |-> flag, metaIssuesEnabled |-> flag,
                 customFieldsMapping |-> flag]))

\* GET permissions: whether a configured group has the current user
GetPermissionsTry(settingsKind, configured, inGroup) ==
    IF settingsKind = "missing" THEN Throw(Undefined, TypeError)
    ELSE Done(Undefined, Json(FreshResponse,
                [isManager |-> configured /\ inGroup,
                 isLightManager |-> configured /\ inGroup]))

\* userExpandedVersion || null
GetExpandedVersionTry(stored) ==
    Done(stored, Json(FreshResponse,
            [expandedVersion |-> IF Truthy(stored) THEN stored ELSE Absent]))

ExpandedBody(expanded) == [kind |-> "object", expandedVersion |-> expanded]

\* PUT expanded-version: null or no value clears the property
PutExpandedVersionTry(stored, req, host) ==
    IF req.body = Unparseable THEN Throw(stored, host.err)
    ELSE
    LET value == BodyField(req.body, "expandedVersion")
    IN  IF value = Absent
        THEN Done(Absent, Json(FreshResponse,
                    [ok |-> TRUE, expandedVersion |-> value]))
        ELSE IF host.writeFails THEN Throw(stored, host.err)
        ELSE Done(value, Json(FreshResponse,
                    [ok |-> TRUE, expandedVersion |-> value]))

GetConfigHandler(settingsKind, flag) == Catch(GetConfigTry(settingsKind, flag))
GetPermissionsHandler(settingsKind, configured, inGroup) ==
    Catch(GetPermissionsTry(settingsKind, configured, inGroup))
GetExpandedVersionHandler(stored) == Catch(GetExpandedVersionTry(stored))
PutExpandedVersionHandler(stored, req, host) ==
    Catch(PutExpandedVersionTry(stored, req, host))

ExpandedBodies ==
    {ExpandedBody(v) : v \in {Absent, ""} \cup (RequestIds \ {NoId})}
    \cup {NullBody, Unparseable}

GetConfig ==
    \E flag \in BOOLEAN :
        LET req == Request("GET config", NoId, NoBody)
        IN  /\ Respond(req, GetConfigHandler(ctxSettings, flag))
            /\ UNCHANGED <<releases, appSettings, issueStatusData,
                           settingsIssueStatusData, expandedVersion,
                           ctxSettings, now>>

GetPermissions ==
    \E configured \in BOOLEAN, inGroup \in BOOLEAN :
        LET req == Request("GET permissions", NoId, NoBody)
        IN  /\ Respond(req, GetPermissionsHandler(ctxSettings, configured, inGroup))
            /\ UNCHANGED <<releases, appSettings, issueStatusData,
                           settingsIssueStatusData, expandedVersion,
                           ctxSettings, now>>

GetExpandedVersion ==
    LET req == Request("GET expanded-version", NoId, NoBody)
    IN  /\ Respond(req, GetExpandedVersionHandler(expandedVersion))
        /\ UNCHANGED <<releases, appSettings, issueStatusData,
                       settingsIssueStatusData, expandedVersion,
                       ctxSettings, now>>

PutExpandedVersion(hosts) ==
    \E body \in ExpandedBodies, host \in hosts :
        LET req == Request("PUT expanded-version", NoId, body)
            out == PutExpandedVersionHandler(expandedVersion, req, host)
        IN  /\ expandedVersion' = out.store
            /\ Respond(req, out)
            /\ UNCHANGED <<releases, appSettings, issueStatusData,
                           settingsIssueStatusData, ctxSettings, now>>

----------------------------------------------------------------------------
(* The issue endpoints of the global module: GET issue, GET issue-field,   *)
(* GET issue-field-exists, GET issue-field-bulk.  An issue of the host has *)
(* its fields in the order a for-in loop visits them; a field whose value  *)
(* is null has the name Absent.                                            *)

Field(key, name) == [key |-> key, name |-> name]

Issue(id, summary, hasFields, fields, hasLinks, subtasks) ==
    [exists |-> TRUE, id |-> id, summary |-> summary, hasFields |-> hasFields,
     fields |-> fields, hasLinks |-> hasLinks, subtasks |-> subtasks]

\* what entities.Issue.findById returns when there is no such issue
NoIssue ==
    [exists |-> FALSE, id |-> "", summary |-> "", hasFields |-> FALSE,
     fields |-> <<>>, hasLinks |-> FALSE, subtasks |-> <<>>]

\* entities.Issue.findById
findById(db, issueId) ==
    IF issueId \in DOMAIN db THEN db[issueId] ELSE NoIssue

\* String.prototype.toLowerCase on the names of the model
toLowerCase(s) ==
    CASE s \in {"State", "state", "STATE"} -> "state"
      [] s \in {"Progress", "progress"} -> "progress"
      [] s = "Missing" -> "missing"
      [] s = "Constructor" -> "constructor"
      [] OTHER -> s

\* fieldName.toString().split(/[;,]/).map(trim).filter(nonempty)
SplitFieldName(fieldName) ==
    CASE fieldName = "progress; STATE" -> <<"progress", "STATE">>
      [] fieldName = "Missing, state" -> <<"Missing", "state">>
      [] fieldName = ";" -> <<>>
      [] OTHER -> <<fieldName>>

\* names.length > 0 ? names : [fieldName]
OrderedNames(fieldName) ==
    IF Len(SplitFieldName(fieldName)) > 0
    THEN SplitFieldName(fieldName)
    ELSE <<fieldName>>

\* the function Object, which every object literal inherits as its
\* property constructor
ObjectFunction == "<function Object>"

\* {}[lower]: what an object literal without own properties has under the
\* lower-case names of the model
InheritedProperty(lower) ==
    IF lower = "constructor" THEN ObjectFunction ELSE Absent

\* keyMap[lower]: the last key of the fields that lowercases to lower; with
\* no such key, what keyMap = {} inherits under that name
KeyMap(fields, lower) ==
    LET hits == {i \in 1..Len(fields) : toLowerCase(fields[i].key) = lower}
    IN  IF hits = {} THEN InheritedProperty(lower)
        ELSE fields[CHOOSE i \in hits : \A j \in hits : j <= i].key

\* the actual key of the first of orderedNames the issue has, null otherwise
resolveFieldNameCaseInsensitive(issue, orderedNames) ==
    IF ~issue.exists \/ ~issue.hasFields THEN Absent
    ELSE
    LET hits == {i \in 1..Len(orderedNames) :
                    Truthy(KeyMap(issue.fields, toLowerCase(orderedNames[i])))}
    IN  IF hits = {} THEN Absent
        ELSE KeyMap(issue.fields,
                    toLowerCase(orderedNames[CHOOSE i \in hits :
                                                \A j \in hits : i <= j]))

\* (fld && typeof fld.name === 'string') ? fld.name : null, fld = fields[key]
FieldValue(issue, key) ==
    IF \E i \in 1..Len(issue.fields) : issue.fields[i].key = key
    THEN issue.fields[CHOOSE i \in 1..Len(issue.fields) :
                        issue.fields[i].key = key].name
    ELSE Absent

prepareIssueData(issue) ==
    [id |-> issue.id, summary |-> issue.summary,
     state |-> IF issue.hasFields /\ FieldValue(issue, "State") # Absent
               THEN FieldValue(issue, "State") ELSE "Unknown",
     subtasks |-> issue.subtasks]

prepareCustomFieldData(issue, fieldName) ==
    LET orderedNames == OrderedNames(fieldName)
        actualName == resolveFieldNameCaseInsensitive(issue, orderedNames)
    IN  IF issue.hasFields /\ Truthy(actualName)
        THEN [name |-> actualName, value |-> FieldValue(issue, actualName)]
        ELSE [name |-> orderedNames[1], value |-> Absent]

\* the query parameters of the issue endpoints
Params(fieldName) == [kind |-> "params", fieldName |-> fieldName]

\* the answers to a missing parameter
IssueIdRequired ==
    sendErrorResponse(FreshResponse, BAD_REQUEST,
                      ThrownString("Issue ID is required"))
FieldNameRequired ==
    sendErrorResponse(FreshResponse, BAD_REQUEST,
                      ThrownString("Field name is required"))
IssueNotFound ==
    sendErrorResponse(FreshResponse, NOT_FOUND, ThrownString("Issue not found"))

\* GET issue?issueId=
GetIssueTry(req, db, host) ==
    IF ~Truthy(req.id) THEN Done(Undefined, IssueIdRequired)
    ELSE IF host.writeFails THEN Throw(Undefined, host.err)
    ELSE
    LET foundIssue == findById(db, req.id)
    IN  IF ~foundIssue.exists THEN Done(Undefined, IssueNotFound)
        ELSE IF ~foundIssue.hasLinks THEN Throw(Undefined, TypeError)
        ELSE Done(Undefined, Json(FreshResponse, prepareIssueData(foundIssue)))

\* GET issue-field?issueId=&fieldName=
GetIssueFieldTry(req, db, host) ==
    IF ~Truthy(req.id) THEN Done(Undefined, IssueIdRequired)
    ELSE IF ~Truthy(req.body.fieldName) THEN Done(Undefined, FieldNameRequired)
    ELSE IF host.writeFails THEN Throw(Undefined, host.err)
    ELSE
    LET foundIssue == findById(db, req.id)
    IN  IF ~foundIssue.exists THEN Done(Undefined, IssueNotFound)
        ELSE Done(Undefined, Json(FreshResponse,
                    prepareCustomFieldData(foundIssue, req.body.fieldName)))

\* GET issue-field-exists?issueId=&fieldName=
GetIssueFieldExistsTry(req, db, host) ==
    IF ~Truthy(req.id) THEN Done(Undefined, IssueIdRequired)
    ELSE IF ~Truthy(req.body.fieldName) THEN Done(Undefined, FieldNameRequired)
    ELSE IF host.writeFails THEN Throw(Undefined, host.err)
    ELSE
    LET issue == findById(db, req.id)
        actual == resolveFieldNameCaseInsensitive(issue,
                        OrderedNames(req.body.fieldName))
    IN  IF ~issue.exists THEN Done(Undefined, IssueNotFound)
        ELSE Done(Undefined, Json(FreshResponse,
                    [exists |-> Truthy(actual), resolvedName |-> actual]))

\* the value of the resolved field on the issue of one id, null when the
\* issue, its fields or the field is missing
BulkItem(db, id, selectedActualName) ==
    LET it == findById(db, id)
    IN  [id |-> id,
         value |-> IF Truthy(selectedActualName) /\ it.exists /\ it.hasFields
                   THEN FieldValue(it, selectedActualName)
                   ELSE Absent]

\* GET issue-field-bulk?issueId=&fieldName=
GetIssueFieldBulkTry(req, db, host) ==
    IF ~Truthy(req.id) THEN Done(Undefined, IssueIdRequired)
    ELSE IF ~Truthy(req.body.fieldName) THEN Done(Undefined, FieldNameRequired)
    ELSE IF host.writeFails THEN Throw(Undefined, host.err)
    ELSE
    LET parent == findById(db, req.id)
        ids == <<req.id>> \o parent.subtasks
        selectedActualName == resolveFieldNameCaseInsensitive(parent,
                                OrderedNames(req.body.fieldName))
    IN  IF ~parent.exists THEN Done(Undefined, IssueNotFound)
        ELSE IF ~parent.hasLinks THEN Throw(Undefined, TypeError)
        ELSE Done(Undefined, Json(FreshResponse,
                    [parentIssueId |-> req.id,
                     fieldName |-> IF Truthy(selectedActualName)
                                   THEN selectedActualName
                                   ELSE req.body.fieldName,
                     items |-> [i \in 1..Len(ids) |->
                                  BulkItem(db, ids[i], selectedActualName)]]))

GetIssueHandler(req, db, host) == Catch(GetIssueTry(req, db, host))
GetIssueFieldHandler(req, db, host) == Catch(GetIssueFieldTry(req, db, host))
GetIssueFieldExistsHandler(req, db, host) ==
    Catch(GetIssueFieldExistsTry(req, db, host))
GetIssueFieldBulkHandler(req, db, host) ==
    Catch(GetIssueFieldBulkTry(req, db, host))

\* the issues the host may hold: a parent with a subtask, a parent whose
\* links cannot be read, a parent without fields whose subtask is gone, none
ParentIssue ==
    Issue("A-1", "Parent", TRUE,
          <<Field("State", "Open"), Field("Progress", Absent)>>,
          TRUE, <<"A-2">>)
ChildIssue ==
    Issue("A-2", "Child", TRUE, <<Field("state", "Fixed")>>, TRUE, <<>>)
IssueBases ==
    {[i \in IssueIds |-> IF i = "A-1" THEN ParentIssue ELSE ChildIssue],
     [i \in IssueIds |-> IF i = "A-1"
                         THEN [ParentIssue EXCEPT !.hasLinks = FALSE]
                         ELSE ChildIssue],
     [i \in IssueIds |-> IF i = "A-1"
                         THEN [ParentIssue EXCEPT !.hasFields = FALSE,
                                                  !.fields = <<>>]
                         ELSE NoIssue],
     [i \in IssueIds |-> NoIssue]}

IssueIdParams == IssueIds \cup {Absent, "X-9"}
FieldNameParams ==
    {Absent, "", "State", "progress; STATE", "Missing, state", "Missing", ";"}

\* the handler of the endpoint op
IssueHandler(op, req, db, host) ==
    CASE op = "GET issue" -> GetIssueHandler(req, db, host)
      [] op = "GET issue-field" -> GetIssueFieldHandler(req, db, host)
      [] op = "GET issue-field-exists" ->
            GetIssueFieldExistsHandler(req, db, host)
      [] op = "GET issue-field-bulk" -> GetIssueFieldBulkHandler(req, db, host)

\* a request to one of the issue endpoints: the host's lookups throw when
\* host.writeFails
IssueRequest(op, fieldNames, hosts) ==
    \E issueId \in IssueIdParams, fieldName \in fieldNames,
       db \in IssueBases, host \in hosts :
        LET req == Request(op, issueId, Params(fieldName))
        IN  /\ Respond(req, IssueHandler(op, req, db, host))
            /\ UNCHANGED <<releases, appSettings, issueStatusData,
                           settingsIssueStatusData, expandedVersion,
                           ctxSettings, now>>

GetIssue(hosts) == IssueRequest("GET issue", {Absent}, hosts)
GetIssueField(hosts) == IssueRequest("GET issue-field", FieldNameParams, hosts)
GetIssueFieldExists(hosts) ==
    IssueRequest("GET issue-field-exists", FieldNameParams, hosts)
GetIssueFieldBulk(hosts) ==
    IssueRequest("GET issue-field-bulk", FieldNameParams, hosts)

----------------------------------------------------------------------------
(* SpecBackend: one request to any endpoint, on any host, against a sample *)
(* of what the extension properties may hold, texts that are no JSON       *)
(* included                                                                *)

SampleStatusData ==
    [issueStatuses |-> [i \in IssueIds |-> IF i = "A-1" THEN "Fixed" ELSE Absent],
     testStatuses |-> [i \in IssueIds |-> IF i = "A-1" THEN "Tested" ELSE Absent]]

InitBackend ==
    /\ releases \in SampleStores
    /\ appSettings \in {Undefined, BadJson, JSONstringify(LegacySettings)}
    /\ issueStatusData \in {Undefined, BadJson, JSONstringify(SampleStatusData)}
    /\ settingsIssueStatusData \in {Undefined, BadJson}
    /\ expandedVersion \in {Absent, "1"}
    /\ ctxSettings \in SettingsKinds
    /\ now = MaxTime
    /\ request = NoRequest
    /\ response = NoResponse
    /\ escaped = FALSE
    /\ ClientInit

First == request = NoRequest

NextBackend ==
    \/ First /\ GetConfig
    \/ First /\ GetPermissions
    \/ First /\ GetAppSettings
    \/ First /\ PutAppSettings(ErrorHosts)
    \/ First /\ GetReleases
    \/ First /\ GetRelease
    \/ First /\ PostReleases(CrudBodies, ErrorHosts)
    \/ First /\ PutRelease(CrudBodies, ErrorHosts)
    \/ First /\ DeleteRelease(ErrorHosts)
    \/ First /\ GetIssueStatuses(ErrorHosts)
    \/ First /\ PutIssueStatus(ErrorHosts)
    \/ First /\ PutIssueTestStatus(ErrorHosts)
    \/ First /\ GetExpandedVersion
    \/ First /\ PutExpandedVersion(ErrorHosts)
    \/ First /\ GetIssue(ErrorHosts)
    \/ First /\ GetIssueField(ErrorHosts)
    \/ First /\ GetIssueFieldExists(ErrorHosts)
    \/ First /\ GetIssueFieldBulk(ErrorHosts)

SpecBackend == InitBackend /\ [][NextBackend]_vars

----------------------------------------------------------------------------
(* SpecResolver: resolveFieldNameCaseInsensitive is called once, for an    *)
(* issue whose fields, in any order, and a list of candidate names are     *)
(* drawn from small sets                                                   *)

FieldKeys == {"State", "state", "Progress"}
Candidates == {"STATE", "progress", "Missing", "Constructor"}

\* the fields of an issue: an object has each key once
FieldLists ==
    {<<>>} \cup {<<Field(k, "Open")>> : k \in FieldKeys}
           \cup {<<Field(pair[1], "Open"), Field(pair[2], "Done")>> :
                    pair \in {q \in FieldKeys \X FieldKeys : q[1] # q[2]}}

ResolverIssues ==
    {Issue("A-1", "Parent", TRUE, fields, FALSE, <<>>) : fields \in FieldLists}
        \cup {Issue("A-1", "Parent", FALSE, <<>>, FALSE, <<>>), NoIssue}

CandidateLists ==
    {<<c>> : c \in Candidates} \cup (Candidates \X Candidates)

ResolverInputs ==
    {[issue |-> issue, orderedNames |-> names] :
        issue \in ResolverIssues, names \in CandidateLists}

InitResolver ==
    /\ releases = Undefined
    /\ appSettings = Undefined
    /\ issueStatusData = Undefined
    /\ settingsIssueStatusData = Undefined
    /\ expandedVersion = Absent
    /\ ctxSettings = "present"
    /\ now = 1
    /\ request = NoRequest
    /\ response = NoResponse
    /\ escaped = FALSE
    /\ StatusCacheInit
    /\ SettingsClientInit
    /\ ReleaseListInit
    /\ ProgressInit
    /\ clientStep = NoClientStep
    /\ ExpansionInit
    /\ resolverInput \in ResolverInputs
    /\ resolvedName = NotResolved

\* the call of the resolver
ResolveFieldName ==
    /\ ~resolvedName.done
    /\ resolvedName' =
            [done |-> TRUE,
             actual |-> resolveFieldNameCaseInsensitive(
                            resolverInput.issue, resolverInput.orderedNames)]
    /\ UNCHANGED <<resolverInput, progressVars, expansionVars,
                   statusCacheVars, settingsClientVars, releaseListVars,
                   clientStep>>
    /\ UNCHANGED <<backendVars, now, request, response, escaped>>

NextResolver == ResolveFieldName

SpecResolver == InitResolver /\ [][NextResolver]_vars

----------------------------------------------------------------------------
(* useSharedIssueStatuses: the issue and test statuses every hook instance *)
(* shares, fetched by polling and changed by optimistic local updates.     *)
(* host.fetchApp is taken to reject when the request is lost and when the  *)
(* backend answers with an error status.                                   *)

FETCH_DEBOUNCE_MS == 1000

\* Date.now() in milliseconds: the clock of the model counts debounce periods
DateNowMs(time) == time * FETCH_DEBOUNCE_MS

\* Object.keys(cast).some(key => global[key] !== cast[key])
HasChanges(global, cast) ==
    \E key \in IssueIds : cast[key] # Absent /\ global[key] # cast[key]

\* { ...global, ...cast }
Spread(global, cast) ==
    [key \in IssueIds |-> IF cast[key] # Absent THEN cast[key] ELSE global[key]]

\* one map of updateGlobalState: replaced only when a key of cast differs
updateGlobalState(global, cast) ==
    IF HasChanges(global, cast) THEN Spread(global, cast) ELSE global

\* the variables fetchAndApply reads and writes, and the outcome of each call
FetchState ==
    [isInitialFetchInProgress |-> isInitialFetchInProgress,
     lastFetchTime |-> lastFetchTime,
     hasAttemptedFetch |-> hasAttemptedFetch,
     statusFetch |-> statusFetch,
     calls |-> <<>>]

shouldFetch(g, time) ==
    IF g.isInitialFetchInProgress THEN FALSE
    ELSE IF DateNowMs(time) - g.lastFetchTime < FETCH_DEBOUNCE_MS THEN FALSE
    ELSE TRUE

\* fetchAndApply up to its await: a call that returns at once, or one that
\* sends the request; quiet tells whether no persistence call is in flight
fetchAndApply(g, time, quiet) ==
    IF ~shouldFetch(g, time)
    THEN [g EXCEPT !.calls = Append(@, "returned")]
    ELSE [g EXCEPT !.isInitialFetchInProgress = TRUE,
                   !.lastFetchTime = DateNowMs(time),
                   !.hasAttemptedFetch = TRUE,
                   !.statusFetch = [NoStatusFetch EXCEPT !.stage = "sent",
                                                         !.quiet = quiet],
                   !.calls = Append(@, "requested")]

\* window.dispatchEvent: the handler of each of n mounted instances calls
\* fetchAndApply, one after the other
RECURSIVE DispatchStatusesUpdated(_, _, _, _)
DispatchStatusesUpdated(g, n, time, quiet) ==
    IF n = 0 THEN g
    ELSE DispatchStatusesUpdated(fetchAndApply(g, time, quiet), n - 1,
                                 time, quiet)

\* the assignments a run of fetchAndApply made
SetFetchState(g) ==
    /\ isInitialFetchInProgress' = g.isInitialFetchInProgress
    /\ lastFetchTime' = g.lastFetchTime
    /\ hasAttemptedFetch' = g.hasAttemptedFetch
    /\ statusFetch' = g.statusFetch

ClientStep(op, notified, dispatched, calls) ==
    [op |-> op, notified |-> notified, dispatched |-> dispatched,
     calls |-> calls, kept |-> <<>>]

\* the effect of a hook instance being mounted: listener, first fetch, timer
MountStatuses(c) ==
    /\ c \notin listeners
    /\ listeners' = listeners \cup {c}
    /\ intervals' = intervals \cup {c}
    /\ LET g == IF (~hasAttemptedFetch \/ ~globalStatusesLoaded)
                   /\ ~isInitialFetchInProgress
                THEN fetchAndApply(FetchState, now, statusWrites = {})
                ELSE FetchState
       IN  /\ SetFetchState(g)
           /\ clientStep' = ClientStep("mount", {}, "none", g.calls)
    /\ UNCHANGED <<globalIssueStatusMap, globalIssueTestStatusMap,
                   globalStatusesLoaded, statusWrites>>
    /\ UNCHANGED <<widgetVars, backendVars, now, request, response, escaped,
                   settingsClientVars, releaseListVars>>

\* the cleanup of the effect
UnmountStatuses(c) ==
    /\ c \in listeners
    /\ listeners' = listeners \ {c}
    /\ intervals' = intervals \ {c}
    /\ clientStep' = ClientStep("unmount", {}, "none", <<>>)
    /\ UNCHANGED <<globalIssueStatusMap, globalIssueTestStatusMap,
                   globalStatusesLoaded, isInitialFetchInProgress,
                   lastFetchTime, hasAttemptedFetch, statusFetch, statusWrites>>
    /\ UNCHANGED <<widgetVars, backendVars, now, request, response, escaped,
                   settingsClientVars, releaseListVars>>

\* the polling timer of an instance fires
PollStatuses(c) ==
    /\ c \in intervals
    /\ LET g == fetchAndApply(FetchState, now, statusWrites = {})
       IN  /\ SetFetchState(g)
           /\ clientStep' = ClientStep("poll", {}, "none", g.calls)
    /\ UNCHANGED <<globalIssueStatusMap, globalIssueTestStatusMap,
                   globalStatusesLoaded, listeners, intervals, statusWrites>>
    /\ UNCHANGED <<widgetVars, backendVars, now, request, response, escaped,
                   settingsClientVars, releaseListVars>>

\* the request of api.getIssueStatuses() reaches the backend, or is lost
AnswerStatuses ==
    /\ statusFetch.stage = "sent"
    /\ \E lost \in BOOLEAN :
        LET host == [HostOk EXCEPT !.settings = ctxSettings]
            req == Request("GET issue-statuses", NoId, NoBody)
            out == GetIssueStatusesHandler(
                      StatusStores(issueStatusData, settingsIssueStatusData),
                      req, host)
            ok == out.response.code = OK /\ out.response.kind = "json"
        IN  IF lost \/ ~ok
            THEN /\ statusFetch' = [statusFetch EXCEPT !.stage = "answered",
                                                       !.ok = FALSE]
                 /\ IF lost THEN UNCHANGED <<request, response, escaped>>
                    ELSE Handled(req, out)
            ELSE /\ statusFetch' =
                        [statusFetch EXCEPT
                            !.stage = "answered", !.ok = TRUE,
                            !.issueStatuses = out.response.value.issueStatuses,
                            !.testStatuses = out.response.value.testStatuses]
                 /\ Handled(req, out)
    /\ clientStep' = ClientStep("answer", {}, "none", <<>>)
    /\ UNCHANGED <<globalIssueStatusMap, globalIssueTestStatusMap,
                   globalStatusesLoaded, isInitialFetchInProgress,
                   lastFetchTime, hasAttemptedFetch, listeners, intervals,
                   statusWrites>>
    /\ UNCHANGED <<widgetVars, backendVars, now, settingsClientVars, releaseListVars>>

\* fetchAndApply after its await: the try, the catch and the finally
ResolveStatuses ==
    /\ statusFetch.stage = "answered"
    /\ IF statusFetch.ok
       THEN LET castIssue == statusFetch.issueStatuses
                castTest == statusFetch.testStatuses
                prevLoaded == globalStatusesLoaded
                hasIssueChanges == HasChanges(globalIssueStatusMap, castIssue)
                hasTestChanges == HasChanges(globalIssueTestStatusMap, castTest)
                hasData == castIssue # NoStatuses \/ castTest # NoStatuses
            IN  /\ globalIssueStatusMap' =
                        updateGlobalState(globalIssueStatusMap, castIssue)
                /\ globalIssueTestStatusMap' =
                        updateGlobalState(globalIssueTestStatusMap, castTest)
                /\ globalStatusesLoaded' = TRUE
                /\ clientStep' =
                        ClientStep("resolve",
                                   IF \/ hasIssueChanges \/ hasTestChanges
                                      \/ prevLoaded # TRUE \/ hasData
                                   THEN listeners ELSE {},
                                   "none", <<>>)
       ELSE /\ UNCHANGED <<globalIssueStatusMap, globalIssueTestStatusMap,
                           globalStatusesLoaded>>
            /\ clientStep' = ClientStep("reject", {}, "none", <<>>)
    /\ isInitialFetchInProgress' = FALSE
    /\ statusFetch' = NoStatusFetch
    /\ UNCHANGED <<lastFetchTime, hasAttemptedFetch, listeners, intervals,
                   statusWrites>>
    /\ UNCHANGED <<widgetVars, backendVars, now, request, response, escaped,
                   settingsClientVars, releaseListVars>>

\* a persistence call in flight
StatusWrite(op, issueId, value) == [op |-> op, issueId |-> issueId, value |-> value]

\* a setIssueStatus that waits for the backend before it changes the maps
OptimisticIssueStatusDeferred(issueMap, testMap, id, status) ==
    [issueMap |-> issueMap, testMap |-> testMap]

\* setIssueStatus before its await: the two maps afterwards
OptimisticIssueStatus(issueMap, testMap, id, status) ==
    [issueMap |-> [issueMap EXCEPT ![id] = status],
     testMap |-> IF ~(status = "Fixed" \/ status = "Merged")
                 THEN [testMap EXCEPT ![id] = "Not tested"]
                 ELSE testMap]

\* the issue whose statuses a user changes in the model, and the statuses
PickedIssues == {"A-1"}
PickedIssueStatuses == {"Fixed", "Unresolved"}
PickedTestStatuses == {"Tested"}

\* setIssueStatus of a mounted instance, up to the await of the api call
SetIssueStatusLocal(c) ==
    /\ c \in listeners
    /\ Cardinality(statusWrites) < MaxWrites
    /\ \E id \in PickedIssues, status \in PickedIssueStatuses :
        LET maps == OptimisticIssueStatus(globalIssueStatusMap,
                                          globalIssueTestStatusMap, id, status)
        IN  /\ globalIssueStatusMap' = maps.issueMap
            /\ globalIssueTestStatusMap' = maps.testMap
            /\ statusWrites' = statusWrites
                                \cup {StatusWrite("issue-status", id, status)}
    /\ clientStep' = ClientStep("setIssueStatus", listeners, "none", <<>>)
    /\ statusFetch' = [statusFetch EXCEPT !.quiet = FALSE]
    /\ UNCHANGED <<globalStatusesLoaded, isInitialFetchInProgress,
                   lastFetchTime, hasAttemptedFetch, listeners, intervals>>
    /\ UNCHANGED <<widgetVars, backendVars, now, request, response, escaped,
                   settingsClientVars, releaseListVars>>

\* setTestStatus of a mounted instance, up to the await of the api call
SetTestStatusLocal(c) ==
    /\ c \in listeners
    /\ Cardinality(statusWrites) < MaxWrites
    /\ \E id \in PickedIssues, status \in PickedTestStatuses :
        /\ globalIssueTestStatusMap' =
                [globalIssueTestStatusMap EXCEPT ![id] = status]
        /\ statusWrites' = statusWrites
                            \cup {StatusWrite("issue-test-status", id, status)}
    /\ clientStep' = ClientStep("setTestStatus", listeners, "none", <<>>)
    /\ statusFetch' = [statusFetch EXCEPT !.quiet = FALSE]
    /\ UNCHANGED <<globalIssueStatusMap, globalStatusesLoaded,
                   isInitialFetchInProgress, lastFetchTime, hasAttemptedFetch,
                   listeners, intervals>>
    /\ UNCHANGED <<widgetVars, backendVars, now, request, response, escaped,
                   settingsClientVars, releaseListVars>>

\* the backend's handling of a persistence call
PersistHandler(w, stores, host) ==
    IF w.op = "issue-status"
    THEN PutIssueStatusHandler(stores,
            Request("PUT issue-status", NoId,
                    StatusBody(w.issueId, w.value, Absent)), host)
    ELSE PutIssueTestStatusHandler(stores,
            Request("PUT issue-test-status", NoId,
                    StatusBody(w.issueId, Absent, w.value)), host)

\* a persistence call settles: the request is lost or the backend handles
\* it; the catch of a failed call dispatches 'issue-statuses-updated'
PersistStatus ==
    \E w \in statusWrites, lost \in BOOLEAN :
        LET host == [HostOk EXCEPT !.settings = ctxSettings]
            stores == StatusStores(issueStatusData, settingsIssueStatusData)
            req == Request(IF w.op = "issue-status" THEN "PUT issue-status"
                           ELSE "PUT issue-test-status", NoId,
                           IF w.op = "issue-status"
                           THEN StatusBody(w.issueId, w.value, Absent)
                           ELSE StatusBody(w.issueId, Absent, w.value))
            out == PersistHandler(w, stores, host)
            failed == lost \/ out.response.code # OK
            left == statusWrites \ {w}
            g == IF failed
                 THEN DispatchStatusesUpdated(FetchState,
                            Cardinality(listeners), now, left = {})
                 ELSE FetchState
        IN  /\ IF lost
               THEN UNCHANGED <<issueStatusData, settingsIssueStatusData,
                                request, response, escaped>>
               ELSE /\ issueStatusData' = out.store.project
                    /\ settingsIssueStatusData' = out.store.settings
                    /\ Handled(req, out)
            /\ statusWrites' = left
            /\ SetFetchState(g)
            /\ clientStep' =
                    ClientStep(IF failed THEN "persist failed" ELSE "persisted",
                               {},
                               IF failed THEN "issue-statuses-updated"
                               ELSE "none",
                               g.calls)
            /\ UNCHANGED <<globalIssueStatusMap, globalIssueTestStatusMap,
                           globalStatusesLoaded, listeners, intervals>>
            /\ UNCHANGED <<releases, appSettings, expandedVersion,
                           ctxSettings, now, settingsClientVars,
                           releaseListVars, widgetVars>>

----------------------------------------------------------------------------
(* SpecStatusCache: hook instances mount and unmount, poll, and change     *)
(* statuses, against the backend of the issue-status endpoints             *)

Mount == \E c \in Components : MountStatuses(c)
Unmount == \E c \in Components : UnmountStatuses(c)
Poll == \E c \in Components : PollStatuses(c)
ChangeIssueStatus == \E c \in Components : SetIssueStatusLocal(c)
ChangeTestStatus == \E c \in Components : SetTestStatusLocal(c)

NextStatusCache ==
    \/ Tick
    \/ Mount
    \/ Unmount
    \/ Poll
    \/ AnswerStatuses
    \/ ResolveStatuses
    \/ ChangeIssueStatus
    \/ ChangeTestStatus
    \/ PersistStatus

SpecStatusCache == Init /\ [][NextStatusCache]_vars

----------------------------------------------------------------------------
(* The settings of the client: API.fetchJson with its module-level cache,  *)
(* useProductOptions, ProductTag and the save of the settings form         *)


\* the callers of api.getAppSettings() in the model
SettingsCallers == {"options", "tag", "form"}

\* (settings.products || []).map(p => ({key: p.name, label: p.name}))
ProductOptionsOf(settings) ==
    CASE settings.products = "[Core]" -> <<"Core">>
      [] OTHER -> <<>>

\* the variables getAppSettings and its callers read and write
SettingsState ==
    [cachedSettings |-> cachedSettings,
     cachedSettingsPromise |-> cachedSettingsPromise,
     settingsFetches |-> settingsFetches,
     productOptions |-> productOptions,
     tagSettings |-> tagSettings,
     calls |-> <<>>]

SetSettingsState(s) ==
    /\ cachedSettings' = s.cachedSettings
    /\ cachedSettingsPromise' = s.cachedSettingsPromise
    /\ settingsFetches' = s.settingsFetches
    /\ productOptions' = s.productOptions
    /\ tagSettings' = s.tagSettings

HasFreeSlot(s) == \E f \in SettingsSlots : s.settingsFetches[f].stage = "free"
FreeSlot(s) == CHOOSE f \in SettingsSlots : s.settingsFetches[f].stage = "free"

\* the requests of the settings that are in flight
SettingsInFlight == {f \in SettingsSlots : settingsFetches[f].stage # "free"}

\* what a caller does with the outcome of its await of getAppSettings();
\* a failed fetchProducts empties the options, ProductTag keeps its settings
SettleSettings(s, caller, ok, settings) ==
    CASE caller = "options" ->
            [s EXCEPT !.productOptions =
                        IF ok THEN ProductOptionsOf(settings) ELSE <<>>]
      [] caller = "tag" ->
            IF ok THEN [s EXCEPT !.tagSettings = settings] ELSE s
      [] OTHER -> s

\* api.invalidateProgressSettingsCache()
invalidateProgressSettingsCache(s) ==
    [s EXCEPT !.cachedSettings = NoSettings,
              !.cachedSettingsPromise = NullPromise]

\* API.fetchJson('backend/app-settings') called by caller: the cached value,
\* the promise of the request in flight, or a new request
getAppSettings(s, caller) ==
    IF s.cachedSettings # NoSettings
    THEN [SettleSettings(s, caller, TRUE, s.cachedSettings)
            EXCEPT !.calls = Append(@, "cached")]
    ELSE IF s.cachedSettingsPromise = RejectedPromise
    THEN [SettleSettings(s, caller, FALSE, NoSettings)
            EXCEPT !.calls = Append(@, "rejected")]
    ELSE IF s.cachedSettingsPromise # NullPromise
    THEN [s EXCEPT !.settingsFetches[s.cachedSettingsPromise].waiters =
                        @ \cup {caller},
                   !.calls = Append(@, "attached")]
    ELSE [s EXCEPT !.settingsFetches[FreeSlot(s)] =
                        [NoSettingsFetch EXCEPT !.stage = "sent",
                                                !.waiters = {caller}],
                   !.cachedSettingsPromise = FreeSlot(s),
                   !.calls = Append(@, "requested")]

\* window.dispatchEvent(new CustomEvent('settings-updated')): the handlers
\* run in the order they were registered; ProductTag's handler invalidates
\* the cache before it asks, useProductOptions' handler calls fetchProducts
RECURSIVE DispatchSettingsUpdated(_, _)
DispatchSettingsUpdated(s, handlers) ==
    IF handlers = <<>> THEN s
    ELSE LET after == IF Head(handlers) = "tag"
                      THEN getAppSettings(
                              invalidateProgressSettingsCache(s), "tag")
                      ELSE getAppSettings(s, "options")
         IN  DispatchSettingsUpdated(after, Tail(handlers))

\* the continuations of the callers that await one request, one by one
RECURSIVE SettleWaiters(_, _, _, _)
SettleWaiters(s, waiters, ok, settings) ==
    IF waiters = {} THEN s
    ELSE LET caller == CHOOSE c \in waiters : TRUE
         IN  SettleWaiters(SettleSettings(s, caller, ok, settings),
                           waiters \ {caller}, ok, settings)

\* useProductOptions is mounted: fetchProducts() and the event listener
MountProductOptions ==
    /\ "options" \notin {settingsListeners[i] : i \in DOMAIN settingsListeners}
    /\ HasFreeSlot(SettingsState)
    /\ LET s == getAppSettings(SettingsState, "options")
       IN  /\ SetSettingsState(s)
           /\ clientStep' = ClientStep("mount options", {}, "none", s.calls)
    /\ settingsListeners' = Append(settingsListeners, "options")
    /\ UNCHANGED <<statusCacheVars, releaseListVars>>
    /\ UNCHANGED <<widgetVars, backendVars, now, request, response, escaped>>

\* ProductTag is mounted: its first effect asks for the settings, its second
\* registers the handler
MountProductTag ==
    /\ "tag" \notin {settingsListeners[i] : i \in DOMAIN settingsListeners}
    /\ HasFreeSlot(SettingsState)
    /\ LET s == getAppSettings(SettingsState, "tag")
       IN  /\ SetSettingsState(s)
           /\ clientStep' = ClientStep("mount tag", {}, "none", s.calls)
    /\ settingsListeners' = Append(settingsListeners, "tag")
    /\ UNCHANGED <<statusCacheVars, releaseListVars>>
    /\ UNCHANGED <<widgetVars, backendVars, now, request, response, escaped>>

\* the settings the form saves
FormSettings ==
    {SettingsBody("[State]", Absent, products) : products \in {"[]", "[Core]"}}

\* the save of the settings form up to its second await: the PUT, and when
\* it succeeded the invalidation of the cache and the prefetch
SaveSettingsForm ==
    /\ \A f \in SettingsSlots : "form" \notin settingsFetches[f].waiters
    /\ HasFreeSlot(SettingsState)
    /\ \E body \in FormSettings, lost \in BOOLEAN :
        LET req == Request("PUT app-settings", NoId, body)
            out == PutAppSettingsHandler(appSettings, req, HostOk)
            failed == lost \/ out.response.code # OK
            s == IF failed THEN SettingsState
                 ELSE getAppSettings(
                        invalidateProgressSettingsCache(SettingsState), "form")
        IN  /\ IF lost THEN UNCHANGED <<appSettings, request, response, escaped>>
               ELSE appSettings' = out.store /\ Handled(req, out)
            /\ SetSettingsState(s)
            /\ clientStep' = ClientStep(IF failed THEN "save failed" ELSE "save",
                                        {}, "none", s.calls)
    /\ UNCHANGED <<settingsListeners, statusCacheVars, releaseListVars,
                   widgetVars>>
    /\ UNCHANGED <<releases, issueStatusData, settingsIssueStatusData,
                   expandedVersion, ctxSettings, now>>

\* a request of the settings reaches the backend, or is lost
AnswerSettings ==
    \E f \in SettingsSlots, lost \in BOOLEAN :
        /\ settingsFetches[f].stage = "sent"
        /\ LET req == Request("GET app-settings", NoId, NoBody)
               out == GetAppSettingsHandler(appSettings, req)
               ok == ~lost /\ out.response.code = OK
           IN  /\ settingsFetches' =
                    [settingsFetches EXCEPT
                        ![f].stage = "answered", ![f].ok = ok,
                        ![f].settings = IF ok THEN out.response.value
                                        ELSE NoSettings]
               /\ IF lost THEN UNCHANGED <<request, response, escaped>>
                  ELSE Handled(req, out)
        /\ clientStep' = ClientStep("answer settings", {}, "none", <<>>)
        /\ UNCHANGED <<cachedSettings, cachedSettingsPromise, productOptions,
                       tagSettings, settingsListeners, statusCacheVars,
                       releaseListVars>>
        /\ UNCHANGED <<widgetVars, backendVars, now>>

\* the promise of a request settles: the async function of fetchJson stores
\* the result and forgets the promise, or rejects and leaves the rejected
\* promise in cachedSettingsPromise; then the callers that awaited it go on,
\* and the form, when its prefetch succeeded, dispatches 'settings-updated'
ResolveSettings ==
    \E f \in SettingsSlots :
        /\ settingsFetches[f].stage = "answered"
        /\ LET fetch == settingsFetches[f]
               freed == [SettingsState EXCEPT
                            !.settingsFetches[f] = NoSettingsFetch]
               stored ==
                    IF fetch.ok
                    THEN [freed EXCEPT !.cachedSettings = fetch.settings,
                                       !.cachedSettingsPromise = NullPromise]
                    ELSE IF cachedSettingsPromise = f
                    THEN [freed EXCEPT
                            !.cachedSettingsPromise = RejectedPromise]
                    ELSE freed
               settled == SettleWaiters(stored, fetch.waiters, fetch.ok,
                                        fetch.settings)
               dispatches == fetch.ok /\ "form" \in fetch.waiters
               s == IF dispatches
                    THEN DispatchSettingsUpdated(settled, settingsListeners)
                    ELSE settled
           IN  /\ SetSettingsState(s)
               /\ clientStep' =
                    ClientStep(IF fetch.ok THEN "settings resolved"
                               ELSE "settings rejected",
                               fetch.waiters,
                               IF dispatches THEN "settings-updated" ELSE "none",
                               s.calls)
        /\ UNCHANGED <<settingsListeners, statusCacheVars, releaseListVars>>
        /\ UNCHANGED <<widgetVars, backendVars, now, request, response, escaped>>

----------------------------------------------------------------------------
(* SpecSettingsClient: the components that show settings are mounted and   *)
(* the settings form is saved, against the backend of app-settings         *)

NextSettingsClient ==
    \/ MountProductOptions
    \/ MountProductTag
    \/ SaveSettingsForm
    \/ AnswerSettings
    \/ ResolveSettings

SpecSettingsClient == Init /\ [][NextSettingsClient]_vars

----------------------------------------------------------------------------
(* useReleaseVersions: the release list of the client                      *)

ListSlots == 1..MaxListFetches

\* the requests of the release list that are in flight
ListInFlight == {f \in ListSlots : rvFetches[f].stage = "sent"}

\* o[name], undefined when the object has no such property
RowField(o, name) == IF name \in DOMAIN o THEN o[name] ELSE Absent

\* Array.isArray(o.plannedIssues) ? o.plannedIssues.length : 0
PlannedCount(o) ==
    IF IsArray(RowField(o, "plannedIssues"))
    THEN ArrayLength(RowField(o, "plannedIssues")) ELSE 0

\* the fields a row renders, compared with ===
SameRow(p, n) ==
    /\ RowField(p, "product") = RowField(n, "product")
    /\ RowField(p, "version") = RowField(n, "version")
    /\ RowField(p, "status") = RowField(n, "status")
    /\ RowField(p, "releaseDate") = RowField(n, "releaseDate")
    /\ RowField(p, "featureFreezeDate") = RowField(n, "featureFreezeDate")
    /\ PlannedCount(p) = PlannedCount(n)

\* new Map(prev.map(it => [it.id, it])).get(id): the index of the last row
\* of prev with that id, 0 when there is none
PrevById(prev, id) ==
    IF \E j \in 1..Len(prev) : prev[j].id = id
    THEN CHOOSE j \in 1..Len(prev) :
            /\ prev[j].id = id
            /\ \A k \in (j + 1)..Len(prev) : prev[k].id # id
    ELSE 0

\* reconcileReleaseVersions: for each row of next the object returned, and
\* the index in prev of the object that was kept (0: the object of next)
reconcileReleaseVersions(prev, next) ==
    [i \in 1..Len(next) |->
        LET n == next[i]
            j == PrevById(prev, n.id)
        IN  IF j = 0 THEN [row |-> n, kept |-> 0]
            ELSE IF SameRow(prev[j], n) THEN [row |-> prev[j], kept |-> j]
            ELSE [row |-> n, kept |-> 0]]

Rows(reconciled) == [i \in 1..Len(reconciled) |-> reconciled[i].row]
Kept(reconciled) == [i \in 1..Len(reconciled) |-> reconciled[i].kept]

\* api.getReleaseVersions() is called: one more request in flight
SendListFetch(silent) ==
    /\ \E f \in ListSlots : rvFetches[f].stage = "free"
    /\ LET f == CHOOSE g \in ListSlots : rvFetches[g].stage = "free"
       IN  rvFetches' = [rvFetches EXCEPT
                            ![f] = [NoListFetch EXCEPT !.stage = "sent",
                                                       !.silent = silent]]

\* the hook is mounted: fetchReleaseVersions(), the listeners, the timer
MountReleaseList ==
    /\ ~rvMounted
    /\ clientReleaseVersions = <<>>
    /\ ~rvError
    /\ \A f \in ListSlots : rvFetches[f].stage = "free"
    /\ rvMounted' = TRUE
    /\ SendListFetch(FALSE)
    /\ clientStep' = ClientStep("mount list", {}, "none", <<"requested">>)
    /\ UNCHANGED <<clientReleaseVersions, rvError>>
    /\ UNCHANGED <<statusCacheVars, settingsClientVars>>
    /\ UNCHANGED <<widgetVars, backendVars, now, request, response, escaped>>

\* the cleanups of the effects: the listeners are removed, the timer cleared
UnmountReleaseList ==
    /\ rvMounted
    /\ rvMounted' = FALSE
    /\ clientStep' = ClientStep("unmount list", {}, "none", <<>>)
    /\ UNCHANGED <<clientReleaseVersions, rvError, rvFetches>>
    /\ UNCHANGED <<statusCacheVars, settingsClientVars>>
    /\ UNCHANGED <<widgetVars, backendVars, now, request, response, escaped>>

\* the polling timer fires: fetchReleaseVersionsSilently()
PollReleaseList ==
    /\ rvMounted
    /\ SendListFetch(TRUE)
    /\ clientStep' = ClientStep("poll list", {}, "none", <<"requested">>)
    /\ UNCHANGED <<rvMounted, clientReleaseVersions, rvError>>
    /\ UNCHANGED <<statusCacheVars, settingsClientVars>>
    /\ UNCHANGED <<widgetVars, backendVars, now, request, response, escaped>>

\* 'release-versions-updated' arrives: legacyHandler, fetchReleaseVersions()
RefreshReleaseList ==
    /\ rvMounted
    /\ SendListFetch(FALSE)
    /\ clientStep' = ClientStep("refresh list", {}, "release-versions-updated",
                                <<"requested">>)
    /\ UNCHANGED <<rvMounted, clientReleaseVersions, rvError>>
    /\ UNCHANGED <<statusCacheVars, settingsClientVars>>
    /\ UNCHANGED <<widgetVars, backendVars, now, request, response, escaped>>

\* a request of the release list reaches the backend, or is lost
AnswerReleaseList ==
    \E f \in ListSlots, lost \in BOOLEAN :
        /\ rvFetches[f].stage = "sent"
        /\ LET req == Request("GET releases", NoId, NoBody)
               out == GetReleasesHandler(releases, req)
               ok == ~lost /\ out.response.code = OK
           IN  /\ rvFetches' =
                    [rvFetches EXCEPT
                        ![f].stage = "answered", ![f].ok = ok,
                        ![f].rows = IF ok THEN out.response.value ELSE <<>>]
               /\ IF lost THEN UNCHANGED <<request, response, escaped>>
                  ELSE Handled(req, out)
        /\ clientStep' = ClientStep("answer list", {}, "none", <<>>)
        /\ UNCHANGED <<rvMounted, clientReleaseVersions, rvError>>
        /\ UNCHANGED <<statusCacheVars, settingsClientVars>>
        /\ UNCHANGED <<widgetVars, backendVars, now>>

\* fetchReleaseVersions / fetchReleaseVersionsSilently after the await
ResolveReleaseList ==
    \E f \in ListSlots :
        /\ rvFetches[f].stage = "answered"
        /\ LET fetch == rvFetches[f]
               reconciled == reconcileReleaseVersions(clientReleaseVersions,
                                                      fetch.rows)
           IN  /\ clientReleaseVersions' =
                    IF ~fetch.ok THEN clientReleaseVersions
                    ELSE IF fetch.silent THEN Rows(reconciled)
                    ELSE fetch.rows
               /\ rvError' = IF fetch.silent THEN rvError ELSE ~fetch.ok
               /\ clientStep' =
                    [ClientStep(IF fetch.ok THEN "list applied"
                                ELSE "list failed", {}, "none", <<>>)
                        EXCEPT !.kept = IF fetch.ok /\ fetch.silent
                                        THEN Kept(reconciled) ELSE <<>>]
        /\ rvFetches' = [rvFetches EXCEPT ![f] = NoListFetch]
        /\ UNCHANGED rvMounted
        /\ UNCHANGED <<statusCacheVars, settingsClientVars>>
        /\ UNCHANGED <<widgetVars, backendVars, now, request, response, escaped>>

----------------------------------------------------------------------------
(* SpecReleaseList: the hook is mounted and unmounted, polls and refreshes *)
(* while release versions are created on the backend                       *)

ListBodies == {MinimalBody}

CreateListedRelease == Room /\ PostReleases(ListBodies, {HostOk})

NextReleaseList ==
    \/ Tick
    \/ CreateListedRelease
    \/ MountReleaseList
    \/ UnmountReleaseList
    \/ PollReleaseList
    \/ RefreshReleaseList
    \/ AnswerReleaseList
    \/ ResolveReleaseList

SpecReleaseList == Init /\ [][NextReleaseList]_vars

----------------------------------------------------------------------------
(* SpecReconcile: one silent poll is applied to a list the hook holds; the *)
(* rows of both lists are drawn from small sets, ids may repeat as the ids *)
(* of the backend do                                                       *)

ReleaseRow(id, product, version, plannedIssues, description) ==
    [id |-> id, product |-> product, version |-> version,
     status |-> "Planning", releaseDate |-> "2099-02-01",
     featureFreezeDate |-> Absent, plannedIssues |-> plannedIssues,
     description |-> description]

ReleaseRows ==
    {ReleaseRow(id, product, version, plannedIssues, description) :
        id \in {"1", "2"}, product \in {"Core"}, version \in {"1.0", "2.0"},
        plannedIssues \in {Absent, "[A-1]"},
        description \in {Absent, "notes"}}

RowLists ==
    {<<>>} \cup {<<a>> : a \in ReleaseRows}
           \cup {<<a, b>> : a \in ReleaseRows, b \in ReleaseRows}

\* the hook holds prev and the answer of a silent poll, next, has arrived
PolledList(prev, next) ==
    /\ rvMounted = TRUE
    /\ clientReleaseVersions = prev
    /\ rvError = FALSE
    /\ rvFetches = [f \in ListSlots |->
                        IF f = 1
                        THEN [NoListFetch EXCEPT !.stage = "answered",
                                                 !.ok = TRUE, !.rows = next,
                                                 !.silent = TRUE]
                        ELSE NoListFetch]

InitReconcile ==
    /\ releases = Undefined
    /\ appSettings = Undefined
    /\ issueStatusData = Undefined
    /\ settingsIssueStatusData = Undefined
    /\ expandedVersion = Absent
    /\ ctxSettings = "present"
    /\ now = 1
    /\ request = NoRequest
    /\ response = NoResponse
    /\ escaped = FALSE
    /\ StatusCacheInit
    /\ SettingsClientInit
    /\ ProgressInit
    /\ clientStep = NoClientStep
    /\ ResolverInit
    /\ ExpansionInit
    /\ \E prev \in RowLists, next \in RowLists : PolledList(prev, next)

ApplyPolledList == ResolveReleaseList

NextReconcile == ApplyPolledList

SpecReconcile == InitReconcile /\ [][NextReconcile]_vars

----------------------------------------------------------------------------
(* useVersionProgress: the progress of the planned issues of a release     *)

\* String.prototype.toLowerCase on the field values of the model
LowerCaseValue(s) ==
    CASE s = "Done" -> "done"
      [] s = "Waiting" -> "waiting"
      [] s \in {"Blocked", "BLOCKED"} -> "blocked"
      [] OTHER -> s

\* getNormalizedZones: the zone lists of the settings in lower case
getNormalizedZones(settings) ==
    [green |-> {LowerCaseValue(s) : s \in settings.greenZoneValues},
     yellow |-> {LowerCaseValue(s) : s \in settings.yellowZoneValues},
     red |-> {LowerCaseValue(s) : s \in settings.redZoneValues}]

\* getZoneForValue
getZoneForValue(value, settings) ==
    IF value = NullValue \/ value = "" THEN "grey"
    ELSE LET v == LowerCaseValue(value)
             zones == getNormalizedZones(settings)
         IN  IF v \in zones.green THEN "green"
             ELSE IF v \in zones.yellow THEN "yellow"
             ELSE IF v \in zones.red THEN "red"
             ELSE "grey"

\* issueStatusMap[id] || 'Unresolved'
StatusOf(issueStatusMap, id) ==
    IF issueStatusMap[id] = Absent THEN "Unresolved" ELSE issueStatusMap[id]

\* an override that knows Fixed only
IsManualOverrideFixedOnly(st) == st = "Fixed"

\* st === 'Fixed' || st === 'Merged'
IsManualOverride(st) == st = "Fixed" \/ st = "Merged"

\* Array.from(new Set(ids)): the first occurrence of each id
RECURSIVE UniqueSeq(_)
UniqueSeq(ids) ==
    IF ids = <<>> THEN <<>>
    ELSE LET front == UniqueSeq(SubSeq(ids, 1, Len(ids) - 1))
             last == ids[Len(ids)]
         IN  IF \E k \in 1..Len(front) : front[k] = last THEN front
             ELSE Append(front, last)

\* the planned issues of the item that have an id: their ids
effectiveIdsRaw(item) ==
    [k \in 1..Len(item.plannedIssues) |-> item.plannedIssues[k].id]

\* filteredIds: the unique ids whose status is not Discoped
filteredIds(item, issueStatusMap) ==
    SelectSeq(UniqueSeq(effectiveIdsRaw(item)),
              LAMBDA id : StatusOf(issueStatusMap, id) # "Discoped")

\* idToIssue[id]: Object.fromEntries keeps the last entry of an id
idToIssue(item, id) ==
    LET k == CHOOSE k \in 1..Len(item.plannedIssues) :
                /\ item.plannedIssues[k].id = id
                /\ \A m \in (k + 1)..Len(item.plannedIssues) :
                        item.plannedIssues[m].id # id
    IN  item.plannedIssues[k]

\* hasManualStatuses
hasManualStatuses(item, issueStatusMap) ==
    LET ids == filteredIds(item, issueStatusMap)
    IN  \E k \in 1..Len(ids) : IsManualOverride(StatusOf(issueStatusMap, ids[k]))

\* allIssueIdsToFetch
allIssueIdsToFetch(item, issueStatusMap) ==
    LET ids == filteredIds(item, issueStatusMap)
        needs(id) ==
            LET issue == idToIssue(item, id)
            IN  IF IsManualOverride(StatusOf(issueStatusMap, id)) THEN {}
                ELSE IF issue.isMeta
                THEN {issue.metaRelatedIssueIds[k] :
                        k \in {m \in 1..Len(issue.metaRelatedIssueIds) :
                            LET relStatus ==
                                    StatusOf(issueStatusMap,
                                             issue.metaRelatedIssueIds[m])
                            IN  /\ relStatus # "Discoped"
                                /\ ~IsManualOverride(relStatus)}}
                ELSE {id}
    IN  UNION {needs(ids[k]) : k \in 1..Len(ids)}

\* items.find(it => it.id === id)?.value ?? null
ValueOf(items, id) ==
    IF \E k \in 1..Len(items) : items[k].id = id
    THEN items[CHOOSE k \in 1..Len(items) :
                /\ items[k].id = id
                /\ \A m \in 1..(k - 1) : items[m].id # id].value
    ELSE NullValue

\* the result of one planned issue
ParentResult(zone, available) ==
    [green |-> IF zone = "green" THEN 1 ELSE 0,
     yellow |-> IF zone = "yellow" THEN 1 ELSE 0,
     red |-> IF zone = "red" THEN 1 ELSE 0,
     grey |-> IF zone = "grey" THEN 1 ELSE 0,
     total |-> 1, available |-> available]

\* the flags of the loop over the related issues of a meta issue
NoFlags ==
    [considered |-> 0, hasRed |-> FALSE, hasYellow |-> FALSE,
     allGreen |-> TRUE, hasGreen |-> FALSE, available |-> FALSE]

\* a loop that takes every manual status but Unresolved for an override
MetaStepAnyManualStatus(flags, relId, issueStatusMap, batchResults, settings) ==
    LET relStatus == StatusOf(issueStatusMap, relId)
        counted == [flags EXCEPT !.considered = @ + 1]
        result == batchResults[relId]
        parentVal == ValueOf(result.items, relId)
        z == getZoneForValue(parentVal, settings)
    IN  IF relStatus # "Unresolved"
        THEN [counted EXCEPT !.hasGreen = TRUE, !.available = TRUE]
        ELSE IF result.found
        THEN [counted EXCEPT
                !.available = @ \/ parentVal # NullValue,
                !.hasRed = @ \/ z = "red",
                !.hasYellow = @ \/ z = "yellow",
                !.hasGreen = @ \/ z = "green",
                !.allGreen = @ /\ z = "green"]
        ELSE [counted EXCEPT !.allGreen = FALSE]

\* one pass of the loop over the related issues
MetaStep(flags, relId, issueStatusMap, batchResults, settings) ==
    LET relStatus == StatusOf(issueStatusMap, relId)
        counted == [flags EXCEPT !.considered = @ + 1]
        result == batchResults[relId]
        parentVal == ValueOf(result.items, relId)
        z == getZoneForValue(parentVal, settings)
    IN  IF relStatus = "Discoped" THEN flags
        ELSE IF IsManualOverride(relStatus)
        THEN [counted EXCEPT !.hasGreen = TRUE, !.available = TRUE]
        ELSE IF result.found
        THEN [counted EXCEPT
                !.available = @ \/ parentVal # NullValue,
                !.hasRed = @ \/ z = "red",
                !.hasYellow = @ \/ z = "yellow",
                !.hasGreen = @ \/ z = "green",
                !.allGreen = @ /\ z = "green"]
        ELSE [counted EXCEPT !.allGreen = FALSE]

RECURSIVE MetaFlags(_, _, _, _)
MetaFlags(relatedIds, issueStatusMap, batchResults, settings) ==
    IF relatedIds = <<>> THEN NoFlags
    ELSE MetaStep(MetaFlags(SubSeq(relatedIds, 1, Len(relatedIds) - 1),
                            issueStatusMap, batchResults, settings),
                  relatedIds[Len(relatedIds)], issueStatusMap, batchResults,
                  settings)

\* a tie-break that puts yellow before red
MetaZoneYellowFirst(flags) ==
    IF flags.considered > 0
    THEN IF flags.hasYellow THEN "yellow"
         ELSE IF flags.hasRed THEN "red"
         ELSE IF flags.allGreen /\ flags.hasGreen THEN "green"
         ELSE "grey"
    ELSE "grey"

\* the zone of a meta issue: red, else yellow, else green when all are green
MetaZone(flags) ==
    IF flags.considered > 0
    THEN IF flags.hasRed THEN "red"
         ELSE IF flags.hasYellow THEN "yellow"
         ELSE IF flags.allGreen /\ flags.hasGreen THEN "green"
         ELSE "grey"
    ELSE "grey"

\* meta issue handling
MetaResult(issue, issueStatusMap, batchResults, settings) ==
    LET flags == MetaFlags(issue.metaRelatedIssueIds, issueStatusMap,
                           batchResults, settings)
    IN  ParentResult(MetaZone(flags),
                     IF flags.considered > 0 THEN flags.available ELSE FALSE)

\* the zone of the values of the subtasks
SubtaskZone(subtaskValues, settings) ==
    LET zones == {getZoneForValue(subtaskValues[k], settings) :
                    k \in 1..Len(subtaskValues)}
    IN  IF subtaskValues = <<>> THEN "grey"
        ELSE IF "red" \in zones THEN "red"
        ELSE IF "yellow" \in zones THEN "yellow"
        ELSE IF zones = {"green"} THEN "green"
        ELSE "grey"

\* a zone that looks at the subtasks although the parent has a value
RegularZoneSubtasksFirst(parentValue, subtaskValues, settings) ==
    IF subtaskValues # <<>> THEN SubtaskZone(subtaskValues, settings)
    ELSE getZoneForValue(parentValue, settings)

\* parentZone of a regular issue
RegularZone(parentValue, subtaskValues, settings) ==
    IF parentValue = NullValue THEN SubtaskZone(subtaskValues, settings)
    ELSE getZoneForValue(parentValue, settings)

\* a regular issue that is available only when its own field has a value
RegularResultOwnValueOnly(id, batchResults, settings) ==
    LET result == batchResults[id]
        items == result.items
        parentValue == ValueOf(items, id)
        subtasks == SelectSeq(items, LAMBDA it : it.id # id)
        subtaskValues == [k \in 1..Len(subtasks) |-> subtasks[k].value]
    IN  IF ~result.found THEN ParentResult("grey", FALSE)
        ELSE IF parentValue = NullValue THEN ParentResult("grey", FALSE)
        ELSE ParentResult(RegularZone(parentValue, subtaskValues, settings),
                          TRUE)

\* regular issue handling
RegularResult(id, batchResults, settings) ==
    LET result == batchResults[id]
        items == result.items
        hasAnyNonNull == \E k \in 1..Len(items) : items[k].value # NullValue
        parentValue == ValueOf(items, id)
        subtasks == SelectSeq(items, LAMBDA it : it.id # id)
        subtaskValues == [k \in 1..Len(subtasks) |-> subtasks[k].value]
    IN  IF ~result.found THEN ParentResult("grey", FALSE)
        ELSE IF ~hasAnyNonNull THEN ParentResult("grey", FALSE)
        ELSE ParentResult(RegularZone(parentValue, subtaskValues, settings),
                          TRUE)

\* the result of the planned issue id
ProcessedResult(id, item, issueStatusMap, batchResults, settings) ==
    LET issue == idToIssue(item, id)
        st == StatusOf(issueStatusMap, id)
    IN  IF IsManualOverride(st) THEN ParentResult("green", TRUE)
        ELSE IF issue.isMeta /\ Len(issue.metaRelatedIssueIds) > 0
        THEN MetaResult(issue, issueStatusMap, batchResults, settings)
        ELSE RegularResult(id, batchResults, settings)

\* processedResults.reduce: the sums of the results
RECURSIVE aggregatedMain(_)
aggregatedMain(results) ==
    IF results = <<>> THEN NoProgress
    ELSE LET acc == aggregatedMain(SubSeq(results, 1, Len(results) - 1))
             r == results[Len(results)]
         IN  [green |-> acc.green + r.green, yellow |-> acc.yellow + r.yellow,
              red |-> acc.red + r.red, grey |-> acc.grey + r.grey,
              total |-> acc.total + r.total]

\* a fetch that does not look at the configured field names
shouldFetchFieldsUnconfigured(input) ==
    allIssueIdsToFetch(input.item, input.issueStatusMap) # {}

\* shouldFetch of fetchIssueData: there are issues to fetch and custom
\* field names
shouldFetchFields(input) ==
    LET hasCustomFields == Len(input.settings.customFieldNames) > 0
    IN  /\ allIssueIdsToFetch(input.item, input.issueStatusMap) # {}
        /\ hasCustomFields

\* the results the batch request is taken to have returned for the issues
\* it was sent for: none when it was not sent
FetchedResults(input) ==
    LET requested == allIssueIdsToFetch(input.item, input.issueStatusMap)
    IN  [id \in ProgressIds |->
            IF shouldFetchFields(input) /\ id \in requested
            THEN input.batchResults[id]
            ELSE NoBatchResult]

\* the requests of fetchIssueData
ProgressCalls(input) ==
    IF shouldFetchFields(input) THEN <<"issue-field-bulk">> ELSE <<>>

\* the first state mainAvailable: whether a planned issue is Fixed or Merged
InitialAvailable(input) ==
    /\ Len(input.item.plannedIssues) > 0
    /\ hasManualStatuses(input.item, input.issueStatusMap)

\* the effects of the hook run for the props it was rendered with
RunProgressEffects ==
    /\ clientStep.op = "none"
    /\ progressInput # NoProgressInput
    /\ LET input == progressInput
           ids == filteredIds(input.item, input.issueStatusMap)
           manual == hasManualStatuses(input.item, input.issueStatusMap)
           batchResults == FetchedResults(input)
           results == [k \in 1..Len(ids) |->
                         ProcessedResult(ids[k], input.item,
                                         input.issueStatusMap, batchResults,
                                         input.settings)]
       IN  IF Len(ids) = 0
           THEN /\ mainProgress' = NoProgress
                /\ mainAvailable' = FALSE
                /\ processedResults' = <<>>
                /\ clientStep' = ClientStep("progress empty", {}, "none", <<>>)
           ELSE IF ~input.statusesLoaded /\ ~manual
           THEN /\ UNCHANGED <<mainProgress, mainAvailable, processedResults>>
                /\ clientStep' = ClientStep("progress waits", {}, "none", <<>>)
           ELSE /\ mainProgress' = aggregatedMain(results)
                /\ mainAvailable' =
                        (manual \/ \E k \in 1..Len(results) : results[k].available)
                /\ processedResults' = results
                /\ clientStep' = ClientStep("progress", {}, "none",
                                            ProgressCalls(input))
    /\ UNCHANGED <<progressInput, progressFetches>>
    /\ UNCHANGED <<statusCacheVars, settingsClientVars, releaseListVars,
                   resolverVars, expansionVars>>
    /\ UNCHANGED <<backendVars, now, request, response, escaped>>

----------------------------------------------------------------------------
(* SpecProgress: the hook is rendered for one release whose planned        *)
(* issues, manual statuses, field values and settings are drawn from small *)
(* sets, and its effects run                                               *)

PlannedIssue(id, isMeta, metaRelatedIssueIds) ==
    [id |-> id, isMeta |-> isMeta, metaRelatedIssueIds |-> metaRelatedIssueIds]

PlannedLists ==
    {<<PlannedIssue("P-1", FALSE, <<>>)>>,
     <<PlannedIssue("P-1", TRUE, <<"P-2", "P-3">>)>>,
     <<PlannedIssue("P-1", TRUE, <<>>)>>,
     <<PlannedIssue("P-1", FALSE, <<>>), PlannedIssue("P-2", FALSE, <<>>)>>,
     <<PlannedIssue("P-1", FALSE, <<>>), PlannedIssue("P-1", FALSE, <<>>)>>}

ManualStatusMaps ==
    {[id \in ProgressIds |->
        CASE id = "P-1" -> s1 [] id = "P-2" -> s2 [] OTHER -> s3] :
        s1 \in {Absent, "Fixed", "Merged", "Discoped"},
        s2 \in {Absent, "Fixed", "Discoped"},
        s3 \in {Absent, "Discoped"}}

\* the answers of the backend for the field of an issue and its subtasks
BatchResult(found, items) == [found |-> found, items |-> items]
FieldItem(id, value) == [id |-> id, value |-> value]

BatchResultMaps ==
    {[id \in ProgressIds |->
        CASE id = "P-1" ->
                BatchResult(f1, <<FieldItem("P-1", v1), FieldItem("P-2", v2),
                                  FieldItem("P-3", v3)>>)
          [] id = "P-2" -> BatchResult(f2, <<FieldItem("P-2", v2)>>)
          [] OTHER -> BatchResult(TRUE, <<FieldItem("P-3", v3)>>)] :
        f1 \in BOOLEAN, f2 \in BOOLEAN,
        v1 \in {NullValue, "Done", "Waiting", "Blocked"},
        v2 \in {NullValue, "Done", "Waiting", "Blocked", "Other"},
        v3 \in {NullValue, "Done", "Waiting", "Blocked"}}

ZoneSettings(customFieldNames) ==
    [customFieldNames |-> customFieldNames, greenZoneValues |-> {"done"},
     yellowZoneValues |-> {"Waiting"}, redZoneValues |-> {"BLOCKED"}]

\* the settings and whether the statuses are loaded
RenderedWith ==
    {[settings |-> ZoneSettings(<<"State">>), statusesLoaded |-> TRUE],
     [settings |-> ZoneSettings(<<>>), statusesLoaded |-> TRUE],
     [settings |-> ZoneSettings(<<"State">>), statusesLoaded |-> FALSE]}

ProgressInputs ==
    {[item |-> [plannedIssues |-> planned], issueStatusMap |-> statuses,
      batchResults |-> batch, settings |-> rendered.settings,
      statusesLoaded |-> rendered.statusesLoaded] :
        planned \in PlannedLists, statuses \in ManualStatusMaps,
        batch \in BatchResultMaps, rendered \in RenderedWith}

InitProgress ==
    /\ releases = Undefined
    /\ appSettings = Undefined
    /\ issueStatusData = Undefined
    /\ settingsIssueStatusData = Undefined
    /\ expandedVersion = Absent
    /\ ctxSettings = "present"
    /\ now = 1
    /\ request = NoRequest
    /\ response = NoResponse
    /\ escaped = FALSE
    /\ StatusCacheInit
    /\ SettingsClientInit
    /\ ReleaseListInit
    /\ clientStep = NoClientStep
    /\ ResolverInit
    /\ ExpansionInit
    /\ progressInput \in ProgressInputs
    /\ mainProgress = NoProgress
    /\ mainAvailable = InitialAvailable(progressInput)
    /\ processedResults = <<>>
    /\ progressFetches = <<>>

NextProgress == RunProgressEffects

SpecProgress == InitProgress /\ [][NextProgress]_vars

----------------------------------------------------------------------------
(* SpecProgressRace: the hook is rendered again with other props while     *)
(* runs of fetchIssueData still await their fetch; the fetches resolve in  *)
(* any order                                                               *)

\* the runs of fetchIssueData that may await their fetch at the same time
MaxProgressFetches == 2

\* what the effects depend on: the props, not the answer of the backend
ProgressDeps(input) ==
    IF input = NoProgressInput THEN <<>>
    ELSE <<input.item, input.issueStatusMap, input.settings,
           input.statusesLoaded>>

\* hasManualStatuses of a render; the hook that is not rendered has none
RenderedManualStatuses(input) ==
    /\ input # NoProgressInput
    /\ hasManualStatuses(input.item, input.issueStatusMap)

\* steps 4 and 5 of fetchIssueData: the results of the planned issues, their
\* sums and whether any is available
ProgressOutcome(input) ==
    LET ids == filteredIds(input.item, input.issueStatusMap)
        manual == hasManualStatuses(input.item, input.issueStatusMap)
        batchResults == FetchedResults(input)
        results == [k \in 1..Len(ids) |->
                      ProcessedResult(ids[k], input.item, input.issueStatusMap,
                                      batchResults, input.settings)]
    IN  [progress |-> aggregatedMain(results),
         available |-> (manual \/ \E k \in 1..Len(results) :
                                        results[k].available),
         results |-> results]

\* the main effect returns before fetchIssueData: the statuses are not loaded
ProgressWaits(input) ==
    /\ Len(filteredIds(input.item, input.issueStatusMap)) > 0
    /\ ~input.statusesLoaded
    /\ ~hasManualStatuses(input.item, input.issueStatusMap)

RaceStatusMaps ==
    {[id \in ProgressIds |-> IF id = "P-1" THEN s1 ELSE Absent] :
        s1 \in {Absent, "Fixed", "Discoped"}}

RaceBatchResults ==
    {[id \in ProgressIds |->
        CASE id = "P-1" -> BatchResult(TRUE, <<FieldItem("P-1", v1)>>)
          [] id = "P-2" -> BatchResult(TRUE, <<FieldItem("P-2", "Blocked")>>)
          [] OTHER -> BatchResult(FALSE, <<>>)] :
        v1 \in {"Done", "Waiting"}}

RaceInputs ==
    {[item |-> [plannedIssues |-> planned], issueStatusMap |-> statuses,
      batchResults |-> batch, settings |-> rendered.settings,
      statusesLoaded |-> rendered.statusesLoaded] :
        planned \in {<<PlannedIssue("P-1", FALSE, <<>>)>>,
                     <<PlannedIssue("P-1", FALSE, <<>>),
                       PlannedIssue("P-2", FALSE, <<>>)>>},
        statuses \in RaceStatusMaps, batch \in RaceBatchResults,
        rendered \in RenderedWith}

\* the hook is rendered, for the first time or with other props: the effect
\* of hasManualStatuses runs when it changed, then the main effect, whose
\* fetchIssueData runs up to its await
RenderProgress ==
    \E input \in RaceInputs :
        /\ ProgressDeps(input) # ProgressDeps(progressInput)
        /\ shouldFetchFields(input) =>
                Len(progressFetches) < MaxProgressFetches
        /\ LET ids == filteredIds(input.item, input.issueStatusMap)
               manual == hasManualStatuses(input.item, input.issueStatusMap)
               mounted == IF progressInput = NoProgressInput
                          THEN InitialAvailable(input) ELSE mainAvailable
               available ==
                    IF manual /\ ~RenderedManualStatuses(progressInput)
                    THEN TRUE ELSE mounted
               outcome == ProgressOutcome(input)
           IN  IF Len(ids) = 0
               THEN /\ mainProgress' = NoProgress
                    /\ mainAvailable' = FALSE
                    /\ processedResults' = <<>>
                    /\ UNCHANGED progressFetches
                    /\ clientStep' =
                            ClientStep("progress empty", {}, "none", <<>>)
               ELSE IF ProgressWaits(input)
               THEN /\ mainAvailable' = available
                    /\ UNCHANGED <<mainProgress, processedResults,
                                   progressFetches>>
                    /\ clientStep' =
                            ClientStep("progress waits", {}, "none", <<>>)
               ELSE IF shouldFetchFields(input)
               THEN /\ mainAvailable' = available
                    /\ progressFetches' = Append(progressFetches, input)
                    /\ UNCHANGED <<mainProgress, processedResults>>
                    /\ clientStep' =
                            ClientStep("progress fetches", {}, "none",
                                       ProgressCalls(input))
               ELSE /\ mainProgress' = outcome.progress
                    /\ mainAvailable' = outcome.available
                    /\ processedResults' = outcome.results
                    /\ UNCHANGED progressFetches
                    /\ clientStep' = ClientStep("progress", {}, "none", <<>>)
        /\ progressInput' = input
    /\ UNCHANGED <<statusCacheVars, settingsClientVars, releaseListVars,
                   resolverVars, expansionVars>>
    /\ UNCHANGED <<backendVars, now, request, response, escaped>>

\* the fetch of a run of fetchIssueData resolves and the run goes on with the
\* props it was started with
ResolveProgressFetch ==
    \E k \in 1..Len(progressFetches) :
        LET outcome == ProgressOutcome(progressFetches[k])
        IN  /\ mainProgress' = outcome.progress
            /\ mainAvailable' = outcome.available
            /\ processedResults' = outcome.results
            /\ progressFetches' =
                    SubSeq(progressFetches, 1, k - 1)
                        \o SubSeq(progressFetches, k + 1, Len(progressFetches))
            /\ clientStep' = ClientStep("progress resolved", {}, "none", <<>>)
            /\ UNCHANGED progressInput
            /\ UNCHANGED <<statusCacheVars, settingsClientVars,
                           releaseListVars, resolverVars, expansionVars>>
            /\ UNCHANGED <<backendVars, now, request, response, escaped>>

NextProgressRace ==
    \/ RenderProgress
    \/ ResolveProgressFetch

SpecProgressRace == Init /\ [][NextProgressRace]_vars

----------------------------------------------------------------------------
(* useExpandedState, toggleInfoSection and handleExpandClick: which rows   *)
(* of the table are expanded, and the expanded id stored for the user      *)

\* a row of the table: the id of its release version and what it can show
TableRow(id, hasPlannedIssues, showOverdueStatus, showFreezeNotice, hasInfoToShow) ==
    [id |-> id, hasPlannedIssues |-> hasPlannedIssues,
     showOverdueStatus |-> showOverdueStatus,
     showFreezeNotice |-> showFreezeNotice, hasInfoToShow |-> hasInfoToShow]

\* isCollapsible of a row
isCollapsible(row) ==
    \/ row.hasPlannedIssues
    \/ row.showOverdueStatus
    \/ row.showFreezeNotice
    \/ ~row.hasInfoToShow

\* the state of the two sets and the calls of api.setExpandedVersion made
Expansion(expanded, info, calls) ==
    [expanded |-> expanded, info |-> info, calls |-> calls]

\* toggleExpandReleaseVersion(id): the updater of expandedReleaseVersions
\* and the call it makes
toggleExpandReleaseVersion(st, id) ==
    LET expanding == id \notin st.expanded
    IN  IF expanding
        THEN [st EXCEPT !.expanded = {id}, !.calls = Append(@, id)]
        ELSE [st EXCEPT !.expanded = {}, !.calls = Append(@, Absent)]

\* toggleInfoSection(id, forceState) with a boolean forceState: the updater
\* of expandedInfoSections and the toggle it calls
toggleInfoSection(st, id, forceState) ==
    IF ~forceState THEN [st EXCEPT !.info = {}]
    ELSE [toggleExpandReleaseVersion(st, id) EXCEPT !.info = {id}]

\* handleExpandClick of the row, for the sets the row was rendered with
handleExpandClick(st, row) ==
    LET isExpanded == row.id \in st.expanded
        isInfoExpanded == row.id \in st.info
        isAnyContentSectionShowing == isExpanded \/ isInfoExpanded
        shouldExpand == ~isAnyContentSectionShowing
        afterInfo == toggleInfoSection(st, row.id, shouldExpand)
    IN  IF isCollapsible(row) /\ (shouldExpand \/ isExpanded)
        THEN toggleExpandReleaseVersion(afterInfo, row.id)
        ELSE afterInfo

----------------------------------------------------------------------------
(* SpecExpansion: the page is opened by a user who may have an expanded id *)
(* stored, and the expanders of the rows are clicked while the calls to    *)
(* the backend are on their way                                            *)

MaxExpandedWrites == 4

\* a release with planned issues and one with a description only
TableRows ==
    {TableRow("1", TRUE, FALSE, FALSE, FALSE),
     TableRow("2", FALSE, FALSE, FALSE, TRUE)}

ExpandedWrite(value) == [value |-> value, stage |-> "sent"]

InitExpansion ==
    /\ releases = Undefined
    /\ appSettings = Undefined
    /\ issueStatusData = Undefined
    /\ settingsIssueStatusData = Undefined
    /\ expandedVersion \in {Absent, "1", "2"}
    /\ ctxSettings = "present"
    /\ now = 1
    /\ request = NoRequest
    /\ response = NoResponse
    /\ escaped = FALSE
    /\ ClientInit

\* the effect of useExpandedState: loadExpanded sends its request
MountExpandedState ==
    /\ expandedLoad.stage = "none"
    /\ expandedLoad' = [expandedLoad EXCEPT !.stage = "sent"]
    /\ UNCHANGED <<expandedReleaseVersions, expandedInfoSections,
                   expandedWrites, lastClick>>
    /\ UNCHANGED <<progressVars, resolverVars, statusCacheVars,
                   settingsClientVars, releaseListVars, clientStep>>
    /\ UNCHANGED <<backendVars, now, request, response, escaped>>

\* GET expanded-version reaches the backend
AnswerExpandedLoad ==
    /\ expandedLoad.stage = "sent"
    /\ LET req == Request("GET expanded-version", NoId, NoBody)
           out == GetExpandedVersionHandler(expandedVersion)
       IN  /\ expandedLoad' =
                [stage |-> "answered",
                 value |-> out.response.value.expandedVersion]
           /\ Handled(req, out)
    /\ UNCHANGED <<expandedReleaseVersions, expandedInfoSections,
                   expandedWrites, lastClick>>
    /\ UNCHANGED <<progressVars, resolverVars, statusCacheVars,
                   settingsClientVars, releaseListVars, clientStep>>
    /\ UNCHANGED <<backendVars, now>>

\* loadExpanded after the await: a stored id replaces the set
ResolveExpandedLoad ==
    /\ expandedLoad.stage = "answered"
    /\ expandedLoad' = [expandedLoad EXCEPT !.stage = "done"]
    /\ expandedReleaseVersions' =
            IF expandedLoad.value # Absent THEN {expandedLoad.value}
            ELSE expandedReleaseVersions
    /\ UNCHANGED <<expandedInfoSections, expandedWrites, lastClick>>
    /\ UNCHANGED <<progressVars, resolverVars, statusCacheVars,
                   settingsClientVars, releaseListVars, clientStep>>
    /\ UNCHANGED <<backendVars, now, request, response, escaped>>

\* a click on the expander of a row of the rendered table
ClickExpander ==
    \E row \in TableRows :
        /\ expandedLoad.stage # "none"
        /\ Len(expandedWrites) + 2 <= MaxExpandedWrites
        /\ LET before == Expansion(expandedReleaseVersions,
                                   expandedInfoSections, <<>>)
               after == handleExpandClick(before, row)
               showing == row.id \in before.expanded \cup before.info
           IN  /\ expandedReleaseVersions' = after.expanded
               /\ expandedInfoSections' = after.info
               /\ expandedWrites' =
                    expandedWrites \o
                        [k \in 1..Len(after.calls) |->
                            ExpandedWrite(after.calls[k])]
               /\ lastClick' =
                    [kind |-> IF ~showing THEN "expand"
                              ELSE IF row.id \in after.expanded \cup after.info
                              THEN "still expanded"
                              ELSE "collapse",
                     id |-> row.id,
                     early |-> lastClick.early \/ expandedLoad.stage # "done"]
        /\ UNCHANGED expandedLoad
        /\ UNCHANGED <<progressVars, resolverVars, statusCacheVars,
                       settingsClientVars, releaseListVars, clientStep>>
        /\ UNCHANGED <<backendVars, now, request, response, escaped>>

\* a PUT expanded-version reaches the backend: the requests that are on
\* their way arrive in any order
DeliverExpandedWrite ==
    \E k \in 1..Len(expandedWrites) :
        /\ expandedWrites[k].stage = "sent"
        /\ LET req == Request("PUT expanded-version", NoId,
                              ExpandedBody(expandedWrites[k].value))
               out == PutExpandedVersionHandler(expandedVersion, req, HostOk)
           IN  /\ expandedVersion' = out.store
               /\ Handled(req, out)
        /\ expandedWrites' = [expandedWrites EXCEPT ![k].stage = "done"]
        /\ UNCHANGED <<expandedReleaseVersions, expandedInfoSections,
                       expandedLoad, lastClick>>
        /\ UNCHANGED <<progressVars, resolverVars, statusCacheVars,
                       settingsClientVars, releaseListVars, clientStep>>
        /\ UNCHANGED <<releases, appSettings, issueStatusData,
                       settingsIssueStatusData, ctxSettings, now>>

NextExpansion ==
    \/ MountExpandedState
    \/ AnswerExpandedLoad
    \/ ResolveExpandedLoad
    \/ ClickExpander
    \/ DeliverExpandedWrite

SpecExpansion == InitExpansion /\ [][NextExpansion]_vars

----------------------------------------------------------------------------
(* Properties of the release endpoints *)

Range(seq) == {seq[i] : i \in 1..Len(seq)}

\* the ids of the stored release versions, in order
StoredIds(store) ==
    LET list == getReleaseVersions(store)
    IN  [i \in 1..Len(list) |-> list[i].id]

IsWrite(req) == req.op \in {"POST releases", "PUT release"}

\* the payload of the request breaks a validation rule
FailsValidation(req) ==
    /\ IsWrite(req)
    /\ req.body.kind = "object"
    /\ \/ ~Truthy(req.body.version)
       \/ Truthy(req.body.status) /\ req.body.status \notin validStatuses
       \/ ~Truthy(req.body.releaseDate)
       \/ /\ Truthy(req.body.featureFreezeDate)
          /\ NewDate(req.body.featureFreezeDate).valid
          /\ NewDate(req.body.releaseDate).valid
          /\ NewDate(req.body.featureFreezeDate).time
                > NewDate(req.body.releaseDate).time
       \/ Truthy(req.body.linkedIssues) /\ ~IsArray(req.body.linkedIssues)

\* C2: a create or update whose payload fails validation answers with the
\* list of validation messages (status 400, a non-empty errors list) and the
\* stored release list is exactly what it was before the request.
C2_InvalidPayloadLeavesStorage ==
    [][FailsValidation(request') =>
        /\ releases' = releases
        /\ response'.code = BAD_REQUEST
        /\ response'.kind = "errors"
        /\ Len(response'.errors) > 0]_vars

\* C2 witness: a rejected payload, answered with its errors, while a list is stored
C2_Witness ==
    /\ FailsValidation(request)
    /\ response.kind = "errors"
    /\ Len(getReleaseVersions(releases)) = 2

\* the last request was an update that succeeded
UpdateSucceeded(req, resp) ==
    req.op = "PUT release" /\ resp.code = OK /\ resp.kind = "json"

\* C3: a successful update addressed to id X stores the record under id X even
\* when the payload carries another id, and no update changes the ids of the
\* stored list: ids change only by a create appending one or a delete
\* removing the records of one id.
C3_UpdateKeepsId ==
    [][/\ UpdateSucceeded(request', response') =>
            /\ response'.value.id = request'.id
            /\ FindIndex(getReleaseVersions(releases'), request'.id)
                 = FindIndex(getReleaseVersions(releases), request'.id)
       /\ request'.op = "PUT release" => StoredIds(releases') = StoredIds(releases)
       /\ \/ StoredIds(releases') = StoredIds(releases)
          \/ /\ request'.op = "POST releases"
             /\ StoredIds(releases') = Append(StoredIds(releases), response'.value.id)
          \/ /\ request'.op = "DELETE release"
             /\ StoredIds(releases') =
                  StoredIds(JSONstringify(FilterOut(getReleaseVersions(releases),
                                                    request'.id)))]_vars

\* C3 witness: an update succeeded whose payload carried a different id
C3_Witness ==
    /\ UpdateSucceeded(request, response)
    /\ request.body.id = "999"
    /\ request.id # "999"
    /\ Len(getReleaseVersions(releases)) = 2

\* C4: no two stored release versions share an id (every create assigns an id
\* that no stored release version has).
C4_IdsUnique ==
    LET ids == StoredIds(releases)
    IN  \A i, j \in 1..Len(ids) : i # j => ids[i] # ids[j]

\* C5: right after a successful create, a GET by the returned id returns the
\* created version and releaseDate with that id, a DELETE by that id answers
\* no-content, and a GET by that id after the delete answers not-found.
C5_CreateGetDeleteGet ==
    (request.op = "POST releases" /\ response.code = CREATED) =>
        LET id == response.value.id
            get1 == GetReleaseHandler(releases, Request("GET release", id, NoBody))
            del == DeleteReleaseHandler(releases,
                        Request("DELETE release", id, NoBody), HostOk)
            get2 == GetReleaseHandler(del.store,
                        Request("GET release", id, NoBody))
        IN  /\ get1.response.code = OK
            /\ get1.response.kind = "json"
            /\ get1.response.value.id = id
            /\ get1.response.value.version = request.body.version
            /\ get1.response.value.releaseDate = request.body.releaseDate
            /\ del.response.code = NO_CONTENT
            /\ get2.response.code = NOT_FOUND

\* C6: a delete naming an id no stored release version has answers not-found
\* and leaves the stored list as it is, whatever the host does.
C6_DeleteUnknownId ==
    \A id \in RequestIds \ {NoId}, host \in Hosts :
        (id \notin Range(StoredIds(releases))) =>
            LET out == DeleteReleaseHandler(releases,
                            Request("DELETE release", id, NoBody), host)
            IN  /\ out.response.code = NOT_FOUND
                /\ out.response.kind = "error"
                /\ out.store = releases
                /\ ~out.escaped

\* C6 witness: a delete of an unknown id was answered not-found while a list
\* of two is stored
C6_Witness ==
    /\ request.op = "DELETE release"
    /\ response.code = NOT_FOUND
    /\ request.id \notin Range(StoredIds(releases))
    /\ Len(getReleaseVersions(releases)) = 2

\* both dates of the payload are set and are dates
BothDatesSet(body) ==
    /\ body.kind = "object"
    /\ Truthy(body.featureFreezeDate) /\ Truthy(body.releaseDate)
    /\ NewDate(body.featureFreezeDate).valid /\ NewDate(body.releaseDate).valid

\* the version, status and linkedIssues rules hold of the payload
OtherRulesHold(body) ==
    /\ Truthy(body.version)
    /\ ~Truthy(body.status) \/ body.status \in validStatuses
    /\ ~Truthy(body.linkedIssues) \/ IsArray(body.linkedIssues)

ReplacedBy(old, new, req, expected) ==
    LET i == FindIndex(old, req.id)
    IN  /\ i # 0
        /\ Len(new) = Len(old)
        /\ new[i] = [expected EXCEPT !.id = req.id]
        /\ \A j \in 1..Len(old) : j # i => new[j] = old[j]

\* C9 as stated: after a successful update the stored record is exactly the
\* payload with id X, at the same position, the other records unchanged.
C9_Original ==
    [][UpdateSucceeded(request', response') =>
        ReplacedBy(getReleaseVersions(releases), getReleaseVersions(releases'),
                   request', request'.body)]_vars

\* C9 amended: after a successful update of id X the stored record is exactly
\* the payload with id X and with status "Planning" when the payload has no
\* status, at the same position; fields of the previous record the payload
\* omits are no longer stored and every other record is unchanged.
C9_WholeRecordReplaced ==
    [][UpdateSucceeded(request', response') =>
        ReplacedBy(getReleaseVersions(releases), getReleaseVersions(releases'),
                   request', DefaultedStatus(request'.body))]_vars

\* C9 witness: an update succeeded whose payload omits the description the
\* record had, on the second record of a list of two
C9_Witness ==
    /\ UpdateSucceeded(request, response)
    /\ request.body.description = Absent
    /\ request.id = "2"
    /\ getReleaseVersions(releases)[2].description = Absent
    /\ getReleaseVersions(releases)[1] = Stored(MinimalBody, 1)

----------------------------------------------------------------------------
(* Properties of the issue-status and settings endpoints *)

\* in the stored text, an issue that is not Fixed or Merged has no test
\* status other than "Not tested"
TestStatusForced(text) ==
    text.kind = "json" =>
        \A i \in IssueIds :
            text.value.issueStatuses[i] \notin {"Fixed", "Merged"} =>
                text.value.testStatuses[i] \in {Absent, "Not tested"}

\* C1: from empty data, after any sequence of issue-status and test-status
\* updates, every issue whose stored issueStatus is not Fixed or Merged (or is
\* absent) has no stored testStatus other than "Not tested"; and an update
\* that sets an issue to a status other than Fixed or Merged (Unresolved in
\* particular) leaves its stored testStatus "Not tested", whatever it was.
C1_TestStatusForced ==
    /\ TestStatusForced(issueStatusData)
    /\ TestStatusForced(settingsIssueStatusData)
    /\ (/\ request.op = "PUT issue-status"
        /\ response.kind = "json"
        /\ request.body.status \notin {"Fixed", "Merged"}) =>
            /\ issueStatusData.value.testStatuses[request.body.issueId]
                 = "Not tested"
            /\ response.value.testStatuses[request.body.issueId] = "Not tested"

\* C1 witness: an issue was set to Unresolved and its test status is
\* "Not tested", while the other issue is Fixed and Tested
C1_Witness ==
    /\ request.op = "PUT issue-status"
    /\ response.kind = "json"
    /\ request.body.issueId = "A-1"
    /\ request.body.status = "Unresolved"
    /\ issueStatusData.value.testStatuses["A-1"] = "Not tested"
    /\ issueStatusData.value.issueStatuses["A-2"] = "Fixed"
    /\ issueStatusData.value.testStatuses["A-2"] = "Tested"

\* customFieldNames is missing, no array, or an empty array
LacksFieldNames(body) ==
    \/ body = NullBody
    \/ /\ body.kind = "object"
       /\ body.customFieldNames \notin {"[State]", "[State,Progress]"}

\* C7: a settings update whose customFieldNames is missing, not an array or
\* an empty array is answered with an error (status 400, an error message)
\* and the stored settings are what they were before it.
C7_SettingsRejected ==
    [][(request'.op = "PUT app-settings" /\ LacksFieldNames(request'.body)) =>
        /\ appSettings' = appSettings
        /\ response'.code = BAD_REQUEST
        /\ response'.kind = "error"
        /\ ~escaped']_vars

\* C7 witness: an update with an empty array was rejected while settings
\* with two field names are stored
C7_Witness ==
    /\ request.op = "PUT app-settings"
    /\ request.body.kind = "object"
    /\ request.body.customFieldNames = "[]"
    /\ response.code = BAD_REQUEST
    /\ appSettings.kind = "json"
    /\ appSettings.value.customFieldNames = "[State,Progress]"

----------------------------------------------------------------------------
(* Properties of the shared issue statuses of the client *)

\* the status data the backend holds
BackendStatusData ==
    ParseStatusData(StatusDataJson(
        StatusStores(issueStatusData, settingsIssueStatusData),
        [HostOk EXCEPT !.settings = ctxSettings])).value

\* a successful poll is applied that was sent while no persistence call was
\* in flight and during which no status was changed locally
QuietPollApplied ==
    /\ statusFetch.stage = "answered"
    /\ statusFetch.ok
    /\ statusFetch.quiet
    /\ statusFetch'.stage = "none"

\* C11: once local mutations have stopped, after the next poll that starts
\* afterwards and succeeds, the cached issue status and test status of every
\* issue equal the values the backend holds.
C11_PollReconciles ==
    [][QuietPollApplied =>
        \A i \in IssueIds :
            /\ globalIssueStatusMap'[i] = BackendStatusData.issueStatuses[i]
            /\ globalIssueTestStatusMap'[i] = BackendStatusData.testStatuses[i]]_vars

\* the same for the issues the backend holds a value of: the poll corrects
\* every key its answer carries
C11_PollReconcilesStoredKeys ==
    [][QuietPollApplied =>
        \A i \in IssueIds :
            /\ BackendStatusData.issueStatuses[i] # Absent =>
                 globalIssueStatusMap'[i] = BackendStatusData.issueStatuses[i]
            /\ BackendStatusData.testStatuses[i] # Absent =>
                 globalIssueTestStatusMap'[i] = BackendStatusData.testStatuses[i]]_vars

\* C12: a local issue-status or test-status change is in the shared maps and
\* the listeners are notified while its persistence call is still in flight;
\* when the persistence call fails the maps are left as they are (no
\* rollback) and the event 'issue-statuses-updated' is dispatched.
C12_OptimisticNoRollback ==
    [][/\ clientStep'.op = "setIssueStatus" =>
            /\ clientStep'.notified = listeners
            /\ \E w \in statusWrites' :
                /\ w.op = "issue-status"
                /\ globalIssueStatusMap'[w.issueId] = w.value
                /\ w.value \notin {"Fixed", "Merged"} =>
                        globalIssueTestStatusMap'[w.issueId] = "Not tested"
       /\ clientStep'.op = "setTestStatus" =>
            /\ clientStep'.notified = listeners
            /\ \E w \in statusWrites' :
                /\ w.op = "issue-test-status"
                /\ globalIssueTestStatusMap'[w.issueId] = w.value
       /\ clientStep'.op = "persist failed" =>
            /\ globalIssueStatusMap' = globalIssueStatusMap
            /\ globalIssueTestStatusMap' = globalIssueTestStatusMap
            /\ clientStep'.dispatched = "issue-statuses-updated"
       /\ clientStep'.op = "persisted" => clientStep'.dispatched = "none"]_vars

\* C12 witness: the persistence call of a change to Fixed failed, the maps
\* still hold Fixed, the backend holds nothing and the event was dispatched
C12_Witness ==
    /\ clientStep.op = "persist failed"
    /\ clientStep.dispatched = "issue-statuses-updated"
    /\ globalIssueStatusMap["A-1"] = "Fixed"
    /\ issueStatusData = Undefined
    /\ statusWrites = {}

----------------------------------------------------------------------------
(* Properties of the data the client keeps when a fetch fails *)

\* C13: a fetch of the settings that fails leaves the product options the
\* client holds as they were: a failed refresh never empties them.
C13_FailedRefreshKeepsOptions ==
    [][clientStep'.op = "settings rejected" =>
            productOptions' = productOptions]_vars

\* a fetch of the issue statuses that fails leaves the shared maps as they
\* were
C13_FailedPollKeepsStatuses ==
    [][clientStep'.op = "reject" =>
            /\ globalIssueStatusMap' = globalIssueStatusMap
            /\ globalIssueTestStatusMap' = globalIssueTestStatusMap
            /\ globalStatusesLoaded' = globalStatusesLoaded]_vars

----------------------------------------------------------------------------
(* Properties of the fetches of the client *)

\* C14: at any time at most one request of the release list is in flight,
\* however many poll ticks fire and refresh events arrive while one is pending.
C14_SingleFlight == Cardinality(ListInFlight) <= 1

\* C15: a poll tick or a refresh event that asks for the release list while a
\* request of it is in flight issues no new request.
C15_LateCallerIssuesNoRequest ==
    [][(clientStep'.op \in {"poll list", "refresh list"} /\ ListInFlight # {})
            => ListInFlight' = ListInFlight]_vars

\* a call of fetchAndApply while a fetch of the issue statuses is in flight
\* sends no request: it returns at once
C15_StatusCallReturnsAtOnce ==
    [][(/\ isInitialFetchInProgress
        /\ clientStep'.op \in {"poll", "persist failed"}
        /\ clientStep' # clientStep)
            => /\ statusFetch' = statusFetch
               /\ \A k \in DOMAIN clientStep'.calls :
                        clientStep'.calls[k] = "returned"]_vars

\* C16: after the hook is unmounted the result of a request that was still
\* in flight is not applied to the state of the hook.
C16_NoApplyAfterUnmount ==
    [][(~rvMounted /\ clientStep'.op \in {"list applied", "list failed"})
            => /\ clientReleaseVersions' = clientReleaseVersions
               /\ rvError' = rvError]_vars

\* after the hook is unmounted no request of the release list is sent
C16_NoFetchAfterUnmount ==
    [][(~rvMounted /\ ~rvMounted') => ListInFlight' \subseteq ListInFlight]_vars

----------------------------------------------------------------------------
(* Properties of the reconciliation of the release list *)

\* the answer of a silent poll is applied in this step
SilentPollApplied(f) ==
    /\ rvFetches[f].stage = "answered"
    /\ rvFetches[f].ok
    /\ rvFetches[f].silent
    /\ rvFetches'[f].stage = "free"

\* row i of the polled list next has the id of a row of prev with the same
\* product, version, status, dates and number of planned issues
Unchanged(prev, next, i) ==
    \E j \in 1..Len(prev) : prev[j].id = next[i].id /\ SameRow(prev[j], next[i])

\* every unchanged row is an object of prev with that id and those fields,
\* every other row is the polled object
RowsReconciled(prev, next, kept, result) ==
    /\ Len(result) = Len(next)
    /\ \A i \in 1..Len(next) :
        IF Unchanged(prev, next, i)
        THEN /\ kept[i] # 0
             /\ prev[kept[i]].id = next[i].id
             /\ SameRow(prev[kept[i]], next[i])
             /\ result[i] = prev[kept[i]]
        ELSE /\ kept[i] = 0
             /\ result[i] = next[i]

UniqueIds(list) ==
    \A i, j \in 1..Len(list) : list[i].id = list[j].id => i = j

\* C17: when a silent poll is applied, every row whose id was in the list
\* the hook held and whose rendered fields are unchanged is kept as the
\* object the hook held; the other rows are replaced by the polled objects.
C17_UnchangedRowsKept ==
    [][\A f \in ListSlots :
        SilentPollApplied(f) =>
            RowsReconciled(clientReleaseVersions, rvFetches[f].rows,
                           clientStep'.kept, clientReleaseVersions')]_vars

\* the same, for a held list whose ids are all different
C17_UnchangedRowsKeptUniqueIds ==
    [][\A f \in ListSlots :
        (SilentPollApplied(f) /\ UniqueIds(clientReleaseVersions)) =>
            RowsReconciled(clientReleaseVersions, rvFetches[f].rows,
                           clientStep'.kept, clientReleaseVersions')]_vars

\* C30: after a successful poll of the release list every row of the list
\* the hook holds equals the polled record of the backend in all of its
\* fields, description among them, and the list has the ids and the order of
\* the polled list.
C30_RowsEqualPolled ==
    [][\A f \in ListSlots :
        SilentPollApplied(f) =>
            /\ Len(clientReleaseVersions') = Len(rvFetches[f].rows)
            /\ \A i \in 1..Len(rvFetches[f].rows) :
                    clientReleaseVersions'[i] = rvFetches[f].rows[i]]_vars

\* the list has the ids and the order of the polled list, and every row has
\* the compared fields of the polled record
C30_ComparedFieldsEqualPolled ==
    [][\A f \in ListSlots :
        SilentPollApplied(f) =>
            /\ Len(clientReleaseVersions') = Len(rvFetches[f].rows)
            /\ \A i \in 1..Len(rvFetches[f].rows) :
                /\ clientReleaseVersions'[i].id = rvFetches[f].rows[i].id
                /\ SameRow(clientReleaseVersions'[i],
                           rvFetches[f].rows[i])]_vars

----------------------------------------------------------------------------
(* Properties of the progress of a release *)

\* the effects have computed a result for each planned issue
ProgressComputed == clientStep.op = "progress"

\* the planned issues that were processed, and what the batch returned
ProcessedIds == filteredIds(progressInput.item, progressInput.issueStatusMap)
Fetched == FetchedResults(progressInput)
ManualStatus(id) == StatusOf(progressInput.issueStatusMap, id)

\* the zone a result counts for
ZoneOfResult(r) == CHOOSE z \in {"green", "yellow", "red", "grey"} : r[z] = 1

\* the zone a related issue of a meta issue resolves to
ResolvedZone(relId) ==
    IF ManualStatus(relId) \in {"Fixed", "Merged"} THEN "green"
    ELSE IF Fetched[relId].found
    THEN getZoneForValue(ValueOf(Fetched[relId].items, relId),
                         progressInput.settings)
    ELSE "grey"

\* red before yellow before green, green only when every zone is green
PriorityZone(zones) ==
    IF "red" \in zones THEN "red"
    ELSE IF "yellow" \in zones THEN "yellow"
    ELSE IF zones = {"green"} THEN "green"
    ELSE "grey"

\* C18: a meta issue without a manual Fixed/Merged status and with at least
\* one related issue that is not Discoped is red when a considered related
\* issue resolves to red, else yellow when one resolves to yellow, else green
\* when all of them resolve to green, else grey.
C18_MetaZonePriority ==
    ProgressComputed =>
        \A k \in 1..Len(ProcessedIds) :
            LET issue == idToIssue(progressInput.item, ProcessedIds[k])
                considered ==
                    {issue.metaRelatedIssueIds[m] :
                        m \in {n \in 1..Len(issue.metaRelatedIssueIds) :
                            ManualStatus(issue.metaRelatedIssueIds[n])
                                # "Discoped"}}
            IN  (/\ issue.isMeta
                 /\ ManualStatus(issue.id) \notin {"Fixed", "Merged"}
                 /\ considered # {})
                => ZoneOfResult(processedResults[k]) =
                        PriorityZone({ResolvedZone(r) : r \in considered})

\* C18 witness: a meta issue whose related issues hold a red and a green
\* value was computed red
C18_Witness ==
    /\ ProgressComputed
    /\ progressInput.item.plannedIssues[1].isMeta
    /\ progressInput.item.plannedIssues[1].metaRelatedIssueIds = <<"P-2", "P-3">>
    /\ \A id \in ProgressIds : ManualStatus(id) = "Unresolved"
    /\ ResolvedZone("P-2") = "red"
    /\ ResolvedZone("P-3") = "green"
    /\ processedResults[1].red = 1

SubtaskValuesOf(id) ==
    LET items == Fetched[id].items
    IN  {items[k].value : k \in {n \in 1..Len(items) : items[n].id # id}}

\* C20: a regular planned issue without a manual override has the zone of
\* the value of its own field when it has one, whatever the subtasks hold;
\* without one, and with a subtask that has a value, the zone of the subtask
\* values (red, else yellow, else green when all are green, else grey); with
\* no value at all it is grey and not available.
C20_RegularZone ==
    ProgressComputed =>
        \A k \in 1..Len(ProcessedIds) :
            LET id == ProcessedIds[k]
                issue == idToIssue(progressInput.item, id)
                parentValue == IF Fetched[id].found
                               THEN ValueOf(Fetched[id].items, id)
                               ELSE NullValue
                subtaskValues == IF Fetched[id].found
                                 THEN SubtaskValuesOf(id) ELSE {}
                r == processedResults[k]
            IN  (~issue.isMeta /\ ManualStatus(id) \notin {"Fixed", "Merged"})
                => IF parentValue # NullValue
                   THEN ZoneOfResult(r) =
                            getZoneForValue(parentValue, progressInput.settings)
                   ELSE IF subtaskValues \ {NullValue} # {}
                   THEN ZoneOfResult(r) =
                            PriorityZone({getZoneForValue(v,
                                            progressInput.settings) :
                                          v \in subtaskValues})
                   ELSE r.grey = 1 /\ ~r.available

\* C20 witness: a regular issue whose own field holds a green value and
\* whose subtask holds a red one was computed green
C20_Witness ==
    /\ ProgressComputed
    /\ ~progressInput.item.plannedIssues[1].isMeta
    /\ ManualStatus("P-1") = "Unresolved"
    /\ Fetched["P-1"].found
    /\ ValueOf(Fetched["P-1"].items, "P-1") = "Done"
    /\ "Blocked" \in SubtaskValuesOf("P-1")
    /\ getZoneForValue("Blocked", progressInput.settings) = "red"
    /\ processedResults[1].green = 1

\* the aggregation for the rendered inputs has run to its end
AggregationDone == clientStep.op \in {"progress", "progress empty"}

\* the entries of the planned issues whose manual status is not Discoped
CountedEntries ==
    {i \in 1..Len(progressInput.item.plannedIssues) :
        ManualStatus(progressInput.item.plannedIssues[i].id) # "Discoped"}

\* C21: the total of the release is the number of planned-issue entries
\* whose manual status is not Discoped: each such entry counts 1, a
\* Discoped entry counts 0.
C21_TotalCountsEntries ==
    AggregationDone => mainProgress.total = Cardinality(CountedEntries)

\* the total is the number of the distinct ids of those entries
C21_TotalCountsDistinctIds ==
    AggregationDone =>
        mainProgress.total =
            Cardinality({progressInput.item.plannedIssues[i].id :
                            i \in CountedEntries})

\* the related issues of a meta issue that are not Discoped
ConsideredOf(issue) ==
    {issue.metaRelatedIssueIds[m] :
        m \in {n \in 1..Len(issue.metaRelatedIssueIds) :
            ManualStatus(issue.metaRelatedIssueIds[n]) # "Discoped"}}

\* the planned issue id yielded real data: a manual Fixed or Merged status,
\* or a value of the field of the issue, of a subtask, or of a related
\* issue of a meta issue
RealData(id) ==
    LET issue == idToIssue(progressInput.item, id)
    IN  \/ ManualStatus(id) \in {"Fixed", "Merged"}
        \/ /\ issue.isMeta
           /\ \E rel \in ConsideredOf(issue) :
                \/ ManualStatus(rel) \in {"Fixed", "Merged"}
                \/ /\ Fetched[rel].found
                   /\ ValueOf(Fetched[rel].items, rel) # NullValue
        \/ /\ ~issue.isMeta
           /\ Fetched[id].found
           /\ \E k \in 1..Len(Fetched[id].items) :
                Fetched[id].items[k].value # NullValue

\* C22: once the aggregation for the inputs has completed, available is
\* true exactly when a planned issue that is not Discoped yielded real data,
\* whatever the zones are.
C22_AvailableIffRealData ==
    AggregationDone =>
        (mainAvailable <=>
            \E i \in CountedEntries :
                RealData(progressInput.item.plannedIssues[i].id))

\* C22 witness: a regular issue whose only value is one of a subtask that
\* is in no zone was computed grey and available
C22_Witness ==
    /\ ProgressComputed
    /\ Len(progressInput.item.plannedIssues) = 1
    /\ ~progressInput.item.plannedIssues[1].isMeta
    /\ ManualStatus("P-1") = "Unresolved"
    /\ Fetched["P-1"].found
    /\ ValueOf(Fetched["P-1"].items, "P-1") = NullValue
    /\ SubtaskValuesOf("P-1") = {NullValue, "Other"}
    /\ mainProgress.grey = 1
    /\ mainProgress.total = 1
    /\ mainAvailable

\* C23: a meta issue without a manual Fixed/Merged status whose related
\* issues are all Discoped is grey and not available.
C23_AllRelatedDiscoped ==
    ProgressComputed =>
        \A k \in 1..Len(ProcessedIds) :
            LET issue == idToIssue(progressInput.item, ProcessedIds[k])
            IN  (/\ issue.isMeta
                 /\ ManualStatus(issue.id) \notin {"Fixed", "Merged"}
                 /\ ConsideredOf(issue) = {})
                => /\ processedResults[k].grey = 1
                   /\ processedResults[k].green = 0
                   /\ processedResults[k].yellow = 0
                   /\ processedResults[k].red = 0
                   /\ ~processedResults[k].available

\* C23 witness: a meta issue with two related issues, both Discoped, was
\* computed grey and the release is not available
C23_Witness ==
    /\ ProgressComputed
    /\ progressInput.item.plannedIssues[1].isMeta
    /\ progressInput.item.plannedIssues[1].metaRelatedIssueIds = <<"P-2", "P-3">>
    /\ ManualStatus("P-1") = "Unresolved"
    /\ ManualStatus("P-2") = "Discoped"
    /\ ManualStatus("P-3") = "Discoped"
    /\ processedResults[1].grey = 1
    /\ ~mainAvailable

\* no custom field name is configured
NoCustomField == progressInput.settings.customFieldNames = <<>>

\* C24 as stated: when no custom field name is configured no field is
\* fetched, and a planned issue without a manual Fixed/Merged status of its
\* own counts for no zone but grey.
C24_Original ==
    (ProgressComputed /\ NoCustomField) =>
        /\ clientStep.calls = <<>>
        /\ \A k \in 1..Len(ProcessedIds) :
                ManualStatus(ProcessedIds[k]) \notin {"Fixed", "Merged"}
                    => processedResults[k].grey = 1

\* a meta issue that has related issues that are not Discoped, all of them
\* Fixed or Merged
AllRelatedOverridden(issue) ==
    /\ issue.isMeta
    /\ ConsideredOf(issue) # {}
    /\ \A rel \in ConsideredOf(issue) : ManualStatus(rel) \in {"Fixed", "Merged"}

\* C24: when no custom field name is configured no field is fetched, a
\* planned issue counts green when it is Fixed or Merged or is a meta issue
\* whose related issues that are not Discoped all are, and every other
\* planned issue counts grey.
C24_OnlyOverridesCounted ==
    (ProgressComputed /\ NoCustomField) =>
        /\ clientStep.calls = <<>>
        /\ \A k \in 1..Len(ProcessedIds) :
            LET issue == idToIssue(progressInput.item, ProcessedIds[k])
                r == processedResults[k]
            IN  IF \/ ManualStatus(issue.id) \in {"Fixed", "Merged"}
                   \/ AllRelatedOverridden(issue)
                THEN r.green = 1 /\ r.available
                ELSE r.grey = 1

\* C24 witness: without a custom field name, of two regular issues with
\* values in the tracker the Fixed one was counted green and the other grey
C24_Witness ==
    /\ ProgressComputed
    /\ NoCustomField
    /\ Len(ProcessedIds) = 2
    /\ ManualStatus("P-1") = "Fixed"
    /\ ManualStatus("P-2") = "Unresolved"
    /\ progressInput.batchResults["P-2"].found
    /\ ValueOf(progressInput.batchResults["P-2"].items, "P-2") = "Blocked"
    /\ clientStep.calls = <<>>
    /\ mainProgress = [green |-> 1, yellow |-> 0, red |-> 0, grey |-> 1,
                       total |-> 2]

----------------------------------------------------------------------------
(* Properties of the field resolver *)

\* the keys of the fields of the issue the resolver was called for
IssueKeys ==
    LET issue == resolverInput.issue
    IN  IF issue.exists /\ issue.hasFields
        THEN {issue.fields[i].key : i \in 1..Len(issue.fields)}
        ELSE {}

\* the candidates that match a field of the issue whatever the case
MatchingCandidates ==
    {i \in 1..Len(resolverInput.orderedNames) :
        \E key \in IssueKeys :
            toLowerCase(key) = toLowerCase(resolverInput.orderedNames[i])}

\* the resolver returned a field of the issue that matches the earliest
\* candidate that matches any field, and nothing when no candidate matches
EarliestCandidateWins ==
    IF MatchingCandidates = {} THEN resolvedName.actual = Absent
    ELSE LET first == CHOOSE i \in MatchingCandidates :
                            \A j \in MatchingCandidates : i <= j
         IN  /\ resolvedName.actual \in IssueKeys
             /\ toLowerCase(resolvedName.actual) =
                    toLowerCase(resolverInput.orderedNames[first])

\* C25: the resolver returns the field of the issue that matches, whatever
\* the case, the earliest candidate of the list that matches any field of
\* the issue, in whatever order the issue has its fields; it returns no
\* field only when no candidate matches.
C25_EarliestCandidateWins == resolvedName.done => EarliestCandidateWins

\* the same for the candidate lists that name no inherited property of the
\* key map
C25_EarliestCandidateWinsOwnNames ==
    (/\ resolvedName.done
     /\ \A i \in 1..Len(resolverInput.orderedNames) :
            InheritedProperty(toLowerCase(resolverInput.orderedNames[i]))
                = Absent)
    => EarliestCandidateWins

----------------------------------------------------------------------------
(* Properties of the expanded rows *)

\* the rows that show their expanded content
ShowingRows ==
    {row \in TableRows :
        row.id \in expandedReleaseVersions \cup expandedInfoSections}

\* C26: at every moment at most one row shows its expanded content: the
\* rows for which isExpanded or isInfoExpanded holds are at most one.
C26_OneRowExpanded == Cardinality(ShowingRows) <= 1

\* the same when no expander was clicked before the stored id was loaded
C26_OneRowExpandedLoadedFirst ==
    ~lastClick.early => Cardinality(ShowingRows) <= 1

\* every call of api.setExpandedVersion has been answered
WritesCompleted ==
    \A k \in 1..Len(expandedWrites) : expandedWrites[k].stage = "done"

\* C27: once the calls that persist it have completed, the expanded id
\* stored for the user is the id of the row the user expanded last, and
\* nothing after the user collapsed a row.
C27_StoredFollowsExpander ==
    (lastClick.kind \in {"expand", "collapse"} /\ WritesCompleted) =>
        expandedVersion =
            IF lastClick.kind = "expand" THEN lastClick.id ELSE Absent

\* the same for the rows that are not collapsible, when they are expanded
C27_StoredFollowsExpanderInfoOnly ==
    (/\ lastClick.kind = "expand"
     /\ WritesCompleted
     /\ \A row \in TableRows : row.id = lastClick.id => ~isCollapsible(row)
     /\ Len(expandedWrites) = 1)
    => expandedVersion = lastClick.id

(***************************************************************************)
(* Properties of the runs of fetchIssueData *)
(***************************************************************************)

\* what the hook shows when the effects of a render have run to their end
Displayed(input) ==
    IF Len(filteredIds(input.item, input.issueStatusMap)) = 0
    THEN [progress |-> NoProgress, available |-> FALSE]
    ELSE [progress |-> ProgressOutcome(input).progress,
          available |-> ProgressOutcome(input).available]

\* the effects of the last render computed a result and no fetch is pending
ProgressSettled ==
    /\ progressInput # NoProgressInput
    /\ progressFetches = <<>>
    /\ ~ProgressWaits(progressInput)

\* C29: when the props change while the fetch of an earlier run is pending,
\* the tally and the available flag shown once every fetch has settled are
\* those of the latest props: a run that resolves late does not overwrite
\* the result of a later one.
C29_LatestInputsDisplayed ==
    ProgressSettled =>
        /\ mainProgress = Displayed(progressInput).progress
        /\ mainAvailable = Displayed(progressInput).available

\* the run of the latest props, when it is the only one pending, leaves the
\* result of the latest props
C29_LastRunDisplaysItsProps ==
    [][(/\ clientStep'.op = "progress resolved"
        /\ progressFetches = <<progressInput>>)
            => /\ mainProgress' = Displayed(progressInput).progress
               /\ mainAvailable' = Displayed(progressInput).available]_vars

(***************************************************************************)
(* Properties of the cache of the settings *)
(***************************************************************************)

\* what GET app-settings answers from the storage as it is now
StoredSettings ==
    GetAppSettingsHandler(appSettings,
        Request("GET app-settings", NoId, NoBody)).response.value

\* the save empties the cache before it asks for the settings again
C28_SaveEmptiesCache ==
    [][clientStep'.op = "save" => cachedSettings' = NoSettings]_vars

\* C28: after the settings were saved and the cache invalidated, a call of
\* getAppSettings returns settings read from the backend after the
\* invalidation, also when a request was in flight at the invalidation: the
\* cache, from which every later call is answered, never holds settings other
\* than those the backend holds since the last save.
C28_FreshAfterInvalidate ==
    cachedSettings # NoSettings => cachedSettings = StoredSettings

----------------------------------------------------------------------------
(* Error handling of the endpoints *)

\* a success: a payload, or no content
SuccessResponse(resp) ==
    \/ resp.code \in {OK, CREATED} /\ resp.kind = "json"
    \/ resp.code = NO_CONTENT /\ resp.kind = "none"

\* a structured error: {error: message} or {errors: messages}, with an
\* error status code
StructuredError(resp) ==
    /\ resp.code \in {BAD_REQUEST, NOT_FOUND}
    /\ \/ resp.kind = "error" /\ resp.error # Absent /\ resp.error # ""
       \/ resp.kind = "errors" /\ Len(resp.errors) > 0

\* C10: no handler lets an exception escape: every request, one whose body
\* parsing, stored-JSON parsing or storage write throws included, ends with a
\* response that is a success payload or a structured error ({error} or
\* {errors}) with an error status code.
C10_NoExceptionEscapes ==
    /\ ~escaped
    /\ request # NoRequest =>
          SuccessResponse(response) \/ StructuredError(response)

\* C10 witness: the stored status data was no JSON when an update parsed it,
\* and the answer is the structured error of the SyntaxError
C10_Witness ==
    /\ request.op = "PUT issue-status"
    /\ issueStatusData = BadJson
    /\ response.code = BAD_REQUEST
    /\ response.kind = "error"
    /\ response.error = "Unexpected token in JSON"

====
